---------------------------- MODULE Spec2Model ----------------------------
(***************************************************************************)
(* A model of the CFG++ LabVIEW parser library (cfgpp_parser.cpp /         *)
(* cfgpp_parser.h): the lexer, the recursive-descent parser, and the       *)
(* binary variant/cluster decoder, driven through the C API.               *)
(*                                                                         *)
(* Representation.                                                         *)
(*   - A text is a sequence of one-character strings; positions are        *)
(*     0-based as in the code (text[pos] is At(text, pos)).                *)
(*   - A CfgppValue is a pair <<tag, data>>; the tag is the CfgppValueType.*)
(*     INTEGER data is the int64_t as its 8 bytes, least significant       *)
(*     first (two's complement); OBJECT data is a function from keys to    *)
(*     values (std::unordered_map), ARRAY data a sequence.                 *)
(*   - A std::unique_ptr that is null is NullPtr; an exception in flight   *)
(*     is Thrown.                                                          *)
(***************************************************************************)
EXTENDS Integers, Sequences, FiniteSets, TLC

\* ------------------------------------------------------------------------
\* Characters
\* ------------------------------------------------------------------------

Digits == {"0", "1", "2", "3", "4", "5", "6", "7", "8", "9"}

Lower == {"a", "b", "c", "d", "e", "f", "g", "h", "i", "j", "k", "l", "m",
          "n", "o", "p", "q", "r", "s", "t", "u", "v", "w", "x", "y", "z"}

Upper == {"A", "B", "C", "D", "E", "F", "G", "H", "I", "J", "K", "L", "M",
          "N", "O", "P", "Q", "R", "S", "T", "U", "V", "W", "X", "Y", "Z"}

\* [a-zA-Z_] and [a-zA-Z0-9_]
IdentStart == Lower \cup Upper \cup {"_"}
IdentPart  == IdentStart \cup Digits

\* std::isspace in the "C" locale (the vertical tab is not used by any input)
Space == {" ", "\t", "\n", "\r", "\f"}

\* ECMAScript LineTerminator: what '.' does not match
LineTerminator == {"\n", "\r"}

OperatorChars    == {"+", "-", "*", "/"}
PunctuationChars == {"{", "}", "(", ")", "[", "]", ",", ";", "=", "."}

\* text[pos], or "" past the end (a value that is in no character class)
At(text, pos) == IF pos >= 0 /\ pos < Len(text) THEN text[pos + 1] ELSE ""

\* text.substr(pos, n)
Substr(text, pos, n) == SubSeq(text, pos + 1, pos + n)

RECURSIVE RunLen(_, _, _)
\* the number of consecutive characters of Class starting at pos
RunLen(text, pos, Class) ==
    IF At(text, pos) \in Class THEN 1 + RunLen(text, pos + 1, Class) ELSE 0

RECURSIVE RunLenNot(_, _, _)
\* the number of consecutive characters outside Class starting at pos
RunLenNot(text, pos, Class) ==
    IF pos < Len(text) /\ At(text, pos) \notin Class
    THEN 1 + RunLenNot(text, pos + 1, Class) ELSE 0

\* whether the literal lit is a prefix of text at pos
StartsWith(text, pos, lit) ==
    /\ pos + Len(lit) <= Len(text)
    /\ \A i \in 1..Len(lit) : text[pos + i] = lit[i]

\* ------------------------------------------------------------------------
\* Lexer: the token patterns, each as the length of its match at pos
\* (0: no match; no pattern matches the empty string)
\* ------------------------------------------------------------------------

\* //.*?$   '.' stops at a line terminator; '$' matches at the end of the
\* input and, when the regex engine treats '$' as end-of-line (dollar_eol),
\* before a line terminator.
MatchComment(text, pos, dollar_eol) ==
    IF ~StartsWith(text, pos, <<"/", "/">>) THEN 0
    ELSE LET k == RunLenNot(text, pos + 2, LineTerminator)
             e == pos + 2 + k
         IN  IF e >= Len(text) \/ dollar_eol THEN 2 + k ELSE 0

\* @(?:include|import)
MatchInclude(text, pos) ==
    IF StartsWith(text, pos, <<"@", "i", "n", "c", "l", "u", "d", "e">>) THEN 8
    ELSE IF StartsWith(text, pos, <<"@", "i", "m", "p", "o", "r", "t">>) THEN 7
    ELSE 0

\* \$\{[a-zA-Z_][a-zA-Z0-9_]*(?::-[^}]*)?\}
MatchEnvVar(text, pos) ==
    IF ~(StartsWith(text, pos, <<"$", "{">>) /\ At(text, pos + 2) \in IdentStart)
    THEN 0
    ELSE LET n == 3 + RunLen(text, pos + 3, IdentPart)
         IN  IF At(text, pos + n) = "}" THEN n + 1
             ELSE IF StartsWith(text, pos + n, <<":", "-">>)
                  THEN LET d == RunLenNot(text, pos + n + 2, {"}"})
                       IN  IF At(text, pos + n + 2 + d) = "}"
                           THEN n + 2 + d + 1 ELSE 0
                  ELSE 0

RECURSIVE StringBody(_, _)
\* (?:\\.|[^"\\])*"  from pos: the length up to and including the closing
\* quote, or -1 when the literal is not closed
StringBody(text, pos) ==
    LET c == At(text, pos)
    IN  IF pos >= Len(text) THEN -1
        ELSE IF c = "\"" THEN 1
        ELSE IF c = "\\"
             THEN IF pos + 1 < Len(text) /\ At(text, pos + 1) \notin LineTerminator
                  THEN LET r == StringBody(text, pos + 2)
                       IN  IF r < 0 THEN -1 ELSE 2 + r
                  ELSE -1
        ELSE LET r == StringBody(text, pos + 1)
             IN  IF r < 0 THEN -1 ELSE 1 + r

\* "(?:\\.|[^"\\])*"
MatchString(text, pos) ==
    IF At(text, pos) # "\"" THEN 0
    ELSE LET r == StringBody(text, pos + 1)
         IN  IF r < 0 THEN 0 ELSE 1 + r

\* \d+(?:\.\d+)?(?:[eE][+-]?\d+)?
MatchNumber(text, pos) ==
    LET i == RunLen(text, pos, Digits)
        f == IF At(text, pos + i) = "." /\ At(text, pos + i + 1) \in Digits
             THEN 1 + RunLen(text, pos + i + 1, Digits) ELSE 0
        p == pos + i + f
        s == IF At(text, p + 1) \in {"+", "-"} THEN 1 ELSE 0
        x == IF At(text, p) \in {"e", "E"} /\ At(text, p + 1 + s) \in Digits
             THEN 1 + s + RunLen(text, p + 1 + s, Digits) ELSE 0
    IN  IF i = 0 THEN 0 ELSE i + f + x

\* true|false
MatchBoolean(text, pos) ==
    IF StartsWith(text, pos, <<"t", "r", "u", "e">>) THEN 4
    ELSE IF StartsWith(text, pos, <<"f", "a", "l", "s", "e">>) THEN 5
    ELSE 0

\* enum
MatchEnumKw(text, pos) ==
    IF StartsWith(text, pos, <<"e", "n", "u", "m">>) THEN 4 ELSE 0

\* null
MatchNullKw(text, pos) ==
    IF StartsWith(text, pos, <<"n", "u", "l", "l">>) THEN 4 ELSE 0

\* [+\-*/]
MatchOperator(text, pos) == IF At(text, pos) \in OperatorChars THEN 1 ELSE 0

\* ::
MatchNamespace(text, pos) ==
    IF StartsWith(text, pos, <<":", ":">>) THEN 2 ELSE 0

\* [a-zA-Z_][a-zA-Z0-9_]*
MatchIdentifier(text, pos) ==
    IF At(text, pos) \in IdentStart
    THEN 1 + RunLen(text, pos + 1, IdentPart) ELSE 0

\* [\{\}\(\)\[\],;=\.]
MatchPunctuation(text, pos) ==
    IF At(text, pos) \in PunctuationChars THEN 1 ELSE 0

\* token_types[], in the order of patterns[]
token_types ==
    << "COMMENT", "INCLUDE", "ENV_VAR", "STRING", "NUMBER", "BOOLEAN",
       "ENUM_KW", "NULL_KW", "OPERATOR", "NAMESPACE", "IDENTIFIER",
       "PUNCTUATION" >>

\* the match length of patterns[i] at pos (i is 1-based here)
patterns(i, text, pos, dollar_eol) ==
    CASE i = 1  -> MatchComment(text, pos, dollar_eol)
      [] i = 2  -> MatchInclude(text, pos)
      [] i = 3  -> MatchEnvVar(text, pos)
      [] i = 4  -> MatchString(text, pos)
      [] i = 5  -> MatchNumber(text, pos)
      [] i = 6  -> MatchBoolean(text, pos)
      [] i = 7  -> MatchEnumKw(text, pos)
      [] i = 8  -> MatchNullKw(text, pos)
      [] i = 9  -> MatchOperator(text, pos)
      [] i = 10 -> MatchNamespace(text, pos)
      [] i = 11 -> MatchIdentifier(text, pos)
      [] i = 12 -> MatchPunctuation(text, pos)

\* struct Token
Token(t, v, l, c) == [type |-> t, value |-> v, line |-> l, column |-> c]

\* a pattern loop that takes the longest match from index i, the first of
\* the longest ones, or 0
FirstMatch_Longest(i, text, pos, dollar_eol) ==
    LET M == {j \in i..Len(token_types) : patterns(j, text, pos, dollar_eol) > 0}
    IN  IF M = {} THEN 0
        ELSE CHOOSE j \in M : \A k \in M :
               \/ patterns(j, text, pos, dollar_eol) > patterns(k, text, pos, dollar_eol)
               \/ /\ patterns(j, text, pos, dollar_eol) = patterns(k, text, pos, dollar_eol)
                  /\ j <= k

RECURSIVE FirstMatch(_, _, _, _)
\* the for loop over patterns[]: the first index from i that matches, or 0
FirstMatch(i, text, pos, dollar_eol) ==
    IF i > Len(token_types) THEN 0
    ELSE IF patterns(i, text, pos, dollar_eol) > 0 THEN i
    ELSE FirstMatch(i + 1, text, pos, dollar_eol)

RECURSIVE SkipSpace(_, _, _, _)
\* the whitespace loop: [pos, line, column] after it
SkipSpace(text, pos, line, column) ==
    IF pos < Len(text) /\ At(text, pos) \in Space
    THEN IF At(text, pos) = "\n"
         THEN SkipSpace(text, pos + 1, line + 1, 1)
         ELSE SkipSpace(text, pos + 1, line, column + 1)
    ELSE [pos |-> pos, line |-> line, column |-> column]

\* a tokenize without column += match.length()
AdvanceColumn_Stay(column, n) == column

\* column after a match of length n that started at column (column += n)
AdvanceColumn(column, n) == column + n

RECURSIVE TokenizeLoop(_, _, _, _, _, _)

\* result.emplace_back(...) unless the token is a comment
Emit(result, i, text, pos, n, line, column) ==
    IF token_types[i] # "COMMENT"
    THEN Append(result, Token(token_types[i], Substr(text, pos, n), line, column))
    ELSE result

\* the body of the pattern loop for the matching pattern i, its match of
\* length n
Matched(text, s, i, n, result, dollar_eol) ==
    TokenizeLoop(text, s.pos + n, s.line, AdvanceColumn(s.column, n),
                 Emit(result, i, text, s.pos, n, s.line, s.column), dollar_eol)

\* the pattern loop for the first matching pattern i (0: none) at
\* s = [pos, line, column], and the if (!matched) after it
MatchAt(text, s, i, result, dollar_eol) ==
    IF i = 0
    THEN [ok |-> FALSE, tokens |-> <<>>,
          last_error |-> <<"Unexpected character: ", At(text, s.pos)>>,
          line |-> s.line, column |-> s.column, pos |-> s.pos]
    ELSE Matched(text, s, i, patterns(i, text, s.pos, dollar_eol), result, dollar_eol)

\* one round of the outer loop after its whitespace loop left s
AfterSpace(text, s, result, dollar_eol) ==
    IF s.pos >= Len(text)
    THEN [ok |-> TRUE,
          tokens |-> Append(result, Token("END_OF_FILE", <<>>, s.line, s.column)),
          last_error |-> <<>>, line |-> s.line, column |-> s.column,
          pos |-> s.pos]
    ELSE MatchAt(text, s, FirstMatch(1, text, s.pos, dollar_eol), result, dollar_eol)

\* the outer while loop of tokenize.  The result is
\*   [ok, tokens, last_error, line, column, pos]
\* where on failure tokens is empty (return {}) and last_error, line and
\* column are what the code stores in last_error, last_error_line and
\* last_error_column; on success line and column are those of END_OF_FILE.
\* pos is the local pos when the function returns.
TokenizeLoop(text, pos, line, column, result, dollar_eol) ==
    AfterSpace(text, SkipSpace(text, pos, line, column), result, dollar_eol)

\* CfgppParser::tokenize
tokenize(text, dollar_eol) == TokenizeLoop(text, 0, 1, 1, <<>>, dollar_eol)

\* ------------------------------------------------------------------------
\* Value model (struct CfgppValue)
\* ------------------------------------------------------------------------

\* a null std::unique_ptr<CfgppValue>, and an exception in flight
NullPtr == <<"nullptr">>
Thrown  == <<"throw">>

\* an empty std::unordered_map
EmptyMap == [k \in {} |-> k]

\* map[key] = value
MapSet(map, key, value) ==
    [k \in DOMAIN map \cup {key} |-> IF k = key THEN value ELSE map[k]]

\* CfgppValue(type) followed by the assignment of data
MkNull       == <<"NULL", <<>>>>
MkBoolean(b) == <<"BOOLEAN", b>>
MkInteger(i) == <<"INTEGER", i>>
MkDouble(d)  == <<"DOUBLE", d>>
MkString(s)  == <<"STRING", s>>
MkEnum(s)    == <<"ENUM", s>>
MkArray(vec) == <<"ARRAY", vec>>
MkObject(map) == <<"OBJECT", map>>

IsValue(v) == v # NullPtr /\ v # Thrown

\* ------------------------------------------------------------------------
\* Numeric conversions (std::stoll, std::stod)
\* ------------------------------------------------------------------------

DigitVal(c) ==
    CASE c = "0" -> 0 [] c = "1" -> 1 [] c = "2" -> 2 [] c = "3" -> 3
      [] c = "4" -> 4 [] c = "5" -> 5 [] c = "6" -> 6 [] c = "7" -> 7
      [] c = "8" -> 8 [] c = "9" -> 9

RECURSIVE StripLeadingZeros(_)
StripLeadingZeros(ds) ==
    IF ds # <<>> /\ Head(ds) = "0" THEN StripLeadingZeros(Tail(ds)) ELSE ds

RECURSIVE StripTrailingZeros(_)
StripTrailingZeros(ds) ==
    IF ds # <<>> /\ ds[Len(ds)] = "0"
    THEN StripTrailingZeros(SubSeq(ds, 1, Len(ds) - 1)) ELSE ds

RECURSIVE DigitsGreater(_, _)
\* whether digit string a is greater than b, compared digit by digit from
\* the left (a shorter string is padded with zeros on the right)
DigitsGreater(a, b) ==
    IF a = <<>> THEN FALSE
    ELSE IF b = <<>> THEN \E i \in 1..Len(a) : a[i] # "0"
    ELSE IF DigitVal(Head(a)) # DigitVal(Head(b))
         THEN DigitVal(Head(a)) > DigitVal(Head(b))
    ELSE DigitsGreater(Tail(a), Tail(b))

\* int64_t as 8 bytes, least significant first
I64Zero == <<0, 0, 0, 0, 0, 0, 0, 0>>

RECURSIVE MulAddBytes(_, _, _, _)
\* bytes * m + carry, byte by byte from index i, dropping the carry out
MulAddBytes(bytes, m, carry, i) ==
    IF i > Len(bytes) THEN bytes
    ELSE LET v == bytes[i] * m + carry
         IN  MulAddBytes([bytes EXCEPT ![i] = v % 256], m, v \div 256, i + 1)

RECURSIVE DecToI64(_, _)
\* the value of a decimal digit string, accumulated into acc
DecToI64(ds, acc) ==
    IF ds = <<>> THEN acc
    ELSE DecToI64(Tail(ds), MulAddBytes(acc, 10, DigitVal(Head(ds)), 1))

\* the digits of LLONG_MAX, 9223372036854775807
LLongMaxDigits ==
    << "9", "2", "2", "3", "3", "7", "2", "0", "3", "6",
       "8", "5", "4", "7", "7", "5", "8", "0", "7" >>

\* the int64_t of a digit string without leading zeros, or Thrown
\* (std::out_of_range)
DigitsToI64(s) ==
    IF Len(s) > Len(LLongMaxDigits)
       \/ (Len(s) = Len(LLongMaxDigits) /\ DigitsGreater(s, LLongMaxDigits))
    THEN Thrown
    ELSE DecToI64(s, I64Zero)

\* std::stoll on a token's text: the int64_t of its leading digits, or
\* Thrown (std::invalid_argument without a digit, std::out_of_range)
stoll(v) ==
    IF RunLen(v, 0, Digits) = 0 THEN Thrown
    ELSE DigitsToI64(StripLeadingZeros(Substr(v, 0, RunLen(v, 0, Digits))))

RECURSIVE DecToInt(_, _)
\* a short decimal digit string as a number
DecToInt(ds, acc) ==
    IF ds = <<>> THEN acc ELSE DecToInt(Tail(ds), acc * 10 + DigitVal(Head(ds)))

\* the leading digits of DBL_MAX, 1.7976931348623157e308
DblMaxDigits ==
    << "1", "7", "9", "7", "6", "9", "3", "1", "3", "4", "8",
       "6", "2", "3", "1", "5", "7" >>
DblMaxExp10 == 308
DblMinExp10 == -324

\* std::stod on a NUMBER token: the double as <<"dec", m, e>>, the decimal
\* m * 10^e with m a digit string without leading or trailing zeros (two
\* literals of up to 15 significant digits denote the same double exactly
\* when these coincide), or Thrown (std::out_of_range: strtod set ERANGE).
stod(v) ==
    LET i  == RunLen(v, 0, Digits)
        f  == IF At(v, i) = "." THEN RunLen(v, i + 1, Digits) ELSE 0
        p  == IF f > 0 THEN i + 1 + f ELSE i
        hasExp == At(v, p) \in {"e", "E"}
        neg == hasExp /\ At(v, p + 1) = "-"
        s  == IF hasExp /\ At(v, p + 1) \in {"+", "-"} THEN 1 ELSE 0
        xd == IF hasExp THEN Substr(v, p + 1 + s, Len(v) - (p + 1 + s)) ELSE <<>>
        x  == IF neg THEN 0 - DecToInt(xd, 0) ELSE DecToInt(xd, 0)
        all == Substr(v, 0, i) \o (IF f > 0 THEN Substr(v, i + 1, f) ELSE <<>>)
        lead == StripLeadingZeros(all)
        m  == StripTrailingZeros(lead)
        e  == x - f + (Len(lead) - Len(m))
        adj == e + Len(m) - 1
    IN  IF m = <<>> THEN <<"dec", <<>>, 0>>
        ELSE IF adj > DblMaxExp10
                \/ (adj = DblMaxExp10 /\ DigitsGreater(m, DblMaxDigits))
                \/ adj < DblMinExp10
        THEN Thrown
        ELSE <<"dec", m, e>>

\* ------------------------------------------------------------------------
\* Parser (CfgppParser::parse_value, parse_object, parse_array)
\*
\* Each operator takes the token vector, current_token_pos and last_error
\* and returns [v, pos, last_error]: the returned pointer (or NullPtr, or
\* Thrown), and the two members as the call leaves them.
\* ------------------------------------------------------------------------

\* tokens[i] of the std::vector (0-based)
Tok(tokens, i) == tokens[i + 1]

PRes(v, pos, le) == [v |-> v, pos |-> pos, last_error |-> le]

\* a NUMBER case that tests for '.' alone
IsDoubleLiteral_DotOnly(v) ==
    \E i \in 1..Len(v) : v[i] = "."

\* the NUMBER case's test: find('.'), find('e'), find('E')
IsDoubleLiteral(v) ==
    \E i \in 1..Len(v) : v[i] \in {".", "e", "E"}

\* an IDENTIFIER case without the lookahead
IsObjectName_Never(tokens, pos) == FALSE

\* the IDENTIFIER case's lookahead: next_pos < tokens.size() &&
\* tokens[next_pos].value == "{"
IsObjectName(tokens, pos) ==
    pos + 1 < Len(tokens) /\ Tok(tokens, pos + 1).value = <<"{">>

\* a parse_object that skips whatever token follows a field
SkipSemicolon_Any(tokens, pos) ==
    IF pos < Len(tokens) THEN pos + 1 ELSE pos

\* a parse_object that leaves a ';' where it is
SkipSemicolon_Never(tokens, pos) == pos

\* "Optional semicolon": the position after it
SkipSemicolon(tokens, pos) ==
    IF pos < Len(tokens) /\ Tok(tokens, pos).value = <<";">> THEN pos + 1 ELSE pos

\* a parse_array that leaves a ',' where it is
SkipComma_Never(tokens, pos) == pos

\* "Handle comma separator": the position after it
SkipComma(tokens, pos) ==
    IF pos < Len(tokens) /\ Tok(tokens, pos).value = <<",">> THEN pos + 1 ELSE pos

\* "Skip optional object name": the position after it
SkipObjectName(tokens, pos) ==
    IF pos < Len(tokens) /\ Tok(tokens, pos).type = "IDENTIFIER" THEN pos + 1 ELSE pos

\* the STRING case: token.value.substr(1, token.value.length() - 2)
Unquote(v) == Substr(v, 1, Len(v) - 2)

\* the NUMBER case's value
OrThrown(tag, x) == IF x = Thrown THEN Thrown ELSE <<tag, x>>

NumberValue(v) ==
    IF IsDoubleLiteral(v)
    THEN OrThrown("DOUBLE", stod(v))
    ELSE OrThrown("INTEGER", stoll(v))

RECURSIVE parse_value(_, _, _)
RECURSIVE parse_object(_, _, _)
RECURSIVE parse_array(_, _, _)
RECURSIVE ObjectLoop(_, _, _, _)
RECURSIVE ArrayLoop(_, _, _, _)

\* the switch of parse_value on the current token
ValueSwitch(tokens, pos, le, token) ==
    CASE token.type = "STRING" ->
           PRes(MkString(Unquote(token.value)), pos + 1, le)
      [] token.type = "NUMBER" ->
           PRes(NumberValue(token.value), pos + 1, le)
      [] token.type = "BOOLEAN" ->
           PRes(MkBoolean(token.value = <<"t", "r", "u", "e">>), pos + 1, le)
      [] token.type = "NULL_KW" ->
           PRes(MkNull, pos + 1, le)
      [] token.type = "PUNCTUATION" ->
           IF token.value = <<"{">> THEN parse_object(tokens, pos, le)
           ELSE IF token.value = <<"[">> THEN parse_array(tokens, pos, le)
           ELSE PRes(NullPtr, pos, le)
      [] token.type = "IDENTIFIER" ->
           IF IsObjectName(tokens, pos)
           THEN parse_object(tokens, pos, le)
           ELSE PRes(MkEnum(token.value), pos + 1, le)
      [] OTHER -> PRes(NullPtr, pos, le)

\* CfgppParser::parse_value
parse_value(tokens, pos, le) ==
    IF pos >= Len(tokens) THEN PRes(NullPtr, pos, le)
    ELSE ValueSwitch(tokens, pos, le, Tok(tokens, pos))

\* parse_object after parse_value returned r for the field key
ObjectField(tokens, map, key, r) ==
    IF ~IsValue(r.v) THEN r
    ELSE ObjectLoop(tokens, SkipSemicolon(tokens, r.pos), r.last_error,
                    MapSet(map, key, r.v))

\* the while loop of parse_object and what follows it
ObjectLoop(tokens, pos, le, map) ==
    IF pos < Len(tokens) /\ Tok(tokens, pos).value # <<"}">>
    THEN IF Tok(tokens, pos).type # "IDENTIFIER"
         THEN PRes(NullPtr, pos, <<"Expected identifier for object key">>)
         ELSE IF pos + 1 >= Len(tokens) \/ Tok(tokens, pos + 1).value # <<"=">>
              THEN PRes(NullPtr, pos + 1, <<"Expected '=' after object key">>)
              ELSE ObjectField(tokens, map, Tok(tokens, pos).value,
                               parse_value(tokens, pos + 2, le))
    ELSE IF pos >= Len(tokens) \/ Tok(tokens, pos).value # <<"}">>
         THEN PRes(NullPtr, pos, <<"Expected '}'">>)
         ELSE PRes(MkObject(map), pos + 1, le)

\* parse_object from the '{' expected at pos
ObjectOpen(tokens, pos, le) ==
    IF pos >= Len(tokens) \/ Tok(tokens, pos).value # <<"{">>
    THEN PRes(NullPtr, pos, <<"Expected '{'">>)
    ELSE ObjectLoop(tokens, pos + 1, le, EmptyMap)

\* CfgppParser::parse_object
parse_object(tokens, pos, le) ==
    ObjectOpen(tokens, SkipObjectName(tokens, pos), le)

\* parse_array after parse_value returned r for an element
ArrayElem(tokens, vec, r) ==
    IF ~IsValue(r.v) THEN r
    ELSE ArrayLoop(tokens, SkipComma(tokens, r.pos), r.last_error,
                   Append(vec, r.v))

\* the while loop of parse_array and what follows it
ArrayLoop(tokens, pos, le, vec) ==
    IF pos < Len(tokens) /\ Tok(tokens, pos).value # <<"]">>
    THEN ArrayElem(tokens, vec, parse_value(tokens, pos, le))
    ELSE IF pos >= Len(tokens) \/ Tok(tokens, pos).value # <<"]">>
         THEN PRes(NullPtr, pos, <<"Expected ']'">>)
         ELSE PRes(MkArray(vec), pos + 1, le)

\* CfgppParser::parse_array
parse_array(tokens, pos, le) ==
    IF pos >= Len(tokens) \/ Tok(tokens, pos).value # <<"[">>
    THEN PRes(NullPtr, pos, <<"Expected '['">>)
    ELSE ArrayLoop(tokens, pos + 1, le, <<>>)


\* ------------------------------------------------------------------------
\* Binary decoder (cfgpp_from_labview_variant, cfgpp_from_labview_cluster)
\*
\* Memory is a sequence of bytes mem, 0-based as in the code; the caller's
\* buffer is mem[0 .. data_size), and what lies behind it in memory is the
\* rest of mem.  A read at or past Len(mem) is a fault (Crash).
\* ------------------------------------------------------------------------

\* enum LabViewDataType
LABVIEW_TYPE_VOID    == 0
LABVIEW_TYPE_I8      == 1
LABVIEW_TYPE_I16     == 2
LABVIEW_TYPE_I32     == 3
LABVIEW_TYPE_I64     == 5
LABVIEW_TYPE_U8      == 6
LABVIEW_TYPE_U16     == 7
LABVIEW_TYPE_U32     == 8
LABVIEW_TYPE_U64     == 10
LABVIEW_TYPE_SGL     == 9
LABVIEW_TYPE_DBL     == 10
LABVIEW_TYPE_BOOLEAN == 33
LABVIEW_TYPE_STRING  == 48
LABVIEW_TYPE_ARRAY   == 64
LABVIEW_TYPE_CLUSTER == 80
LABVIEW_TYPE_VARIANT == 15

\* sizeof(LabViewDataHeader): type_code, flags, data_size, dimensions
HeaderSize == 16
\* offsetof(LabViewDataHeader, data_size)
DataSizeOffset == 8

\* a value no buffer of the model reaches: a 32-bit word of 2^30 or more
HugeWord == 1073741824

\* the out-parameter *result before the call writes it
Unset == <<"unset">>
\* the outcome of a read outside mapped memory
Crash == "CRASH"

\* whether the n bytes at off are mapped
Mapped(mem, off, n) == off + n <= Len(mem)

\* the n bytes at off
Bytes(mem, off, n) == SubSeq(mem, off + 1, off + n)

\* a uint32_t read at off (little-endian); a word of 2^30 or more reads as
\* HugeWord, which compares like it against every offset and size here
WordAt(mem, off) ==
    LET w == Bytes(mem, off, 4)
    IN  IF w[4] >= 64 THEN HugeWord
        ELSE w[1] + 256 * w[2] + 65536 * w[3] + 16777216 * w[4]

\* widening a signed integer of Len(bs) bytes to int64_t
SignExtend(bs) ==
    LET fill == IF bs[Len(bs)] >= 128 THEN 255 ELSE 0
    IN  [i \in 1..8 |-> IF i <= Len(bs) THEN bs[i] ELSE fill]

\* widening an unsigned integer of Len(bs) bytes to int64_t
ZeroExtend(bs) == [i \in 1..8 |-> IF i <= Len(bs) THEN bs[i] ELSE 0]

\* the case labels of the switch whose value is type_code, in source order.
\* LABVIEW_TYPE_U64 and LABVIEW_TYPE_DBL are both 10: the switch has two
\* labels for that value.
CaseLabels(type_code) ==
    (IF type_code = LABVIEW_TYPE_BOOLEAN THEN {"BOOLEAN"} ELSE {}) \cup
    (IF type_code = LABVIEW_TYPE_I8  THEN {"I8"}  ELSE {}) \cup
    (IF type_code = LABVIEW_TYPE_I16 THEN {"I16"} ELSE {}) \cup
    (IF type_code = LABVIEW_TYPE_I32 THEN {"I32"} ELSE {}) \cup
    (IF type_code = LABVIEW_TYPE_I64 THEN {"I64"} ELSE {}) \cup
    (IF type_code = LABVIEW_TYPE_U8  THEN {"U8"}  ELSE {}) \cup
    (IF type_code = LABVIEW_TYPE_U16 THEN {"U16"} ELSE {}) \cup
    (IF type_code = LABVIEW_TYPE_U32 THEN {"U32"} ELSE {}) \cup
    (IF type_code = LABVIEW_TYPE_U64 THEN {"U64"} ELSE {}) \cup
    (IF type_code = LABVIEW_TYPE_SGL THEN {"SGL"} ELSE {}) \cup
    (IF type_code = LABVIEW_TYPE_DBL THEN {"DBL"} ELSE {}) \cup
    (IF type_code = LABVIEW_TYPE_STRING THEN {"STRING"} ELSE {})

\* the case the switch takes: the only label, or for the doubled value the
\* one the build dispatches to (case10), or "default"
SwitchCase(type_code, case10) ==
    LET ls == CaseLabels(type_code)
    IN  IF ls = {} THEN "default"
        ELSE IF Cardinality(ls) = 1 THEN CHOOSE l \in ls : TRUE
        ELSE case10

\* the bytes of payload a case reads before any length prefix is known
FixedRead(label) ==
    CASE label \in {"BOOLEAN", "I8", "U8"} -> 1
      [] label \in {"I16", "U16"} -> 2
      [] label \in {"I32", "U32", "SGL", "STRING"} -> 4
      [] label \in {"I64", "U64", "DBL"} -> 8
      [] OTHER -> 0

\* the value a fixed-size case builds from its payload bytes
ScalarOf(label, bs) ==
    CASE label = "BOOLEAN" -> MkBoolean(bs[1] # 0)
      [] label \in {"I8", "I16", "I32", "I64"} -> MkInteger(SignExtend(bs))
      [] label \in {"U8", "U16", "U32"} -> MkInteger(ZeroExtend(bs))
      [] label = "U64" -> MkInteger(bs)
      [] label = "SGL" -> MkDouble(<<"f32", bs>>)
      [] label = "DBL" -> MkDouble(<<"f64", bs>>)

\* a decode outcome: the return code, *result, and the end of the highest
\* byte read (an offset into mem)
DRes(rc, value, extent) == [rc |-> rc, value |-> value, extent |-> extent]

\* the size check of cfgpp_from_labview_variant
VariantSizeOk(data_size) == data_size >= HeaderSize

\* the STRING case: the length prefix str_length is known
StringCase(mem, data_ptr, str_length) ==
    IF ~Mapped(mem, data_ptr + 4, str_length)
    THEN DRes(Crash, Unset, data_ptr + 4 + str_length)
    ELSE DRes("CFGPP_SUCCESS", MkString(Bytes(mem, data_ptr + 4, str_length)),
              data_ptr + 4 + str_length)

\* the body of the switch for the case label taken
CaseBody(mem, base, data_ptr, label) ==
    IF label = "default"
    THEN DRes("CFGPP_ERROR_INVALID_PARAMETER", Unset, base + 4)
    ELSE IF ~Mapped(mem, data_ptr, FixedRead(label))
    THEN DRes(Crash, Unset, data_ptr + FixedRead(label))
    ELSE IF label = "STRING"
    THEN StringCase(mem, data_ptr, WordAt(mem, data_ptr))
    ELSE DRes("CFGPP_SUCCESS",
              ScalarOf(label, Bytes(mem, data_ptr, FixedRead(label))),
              data_ptr + FixedRead(label))

\* cfgpp_from_labview_variant on the buffer at mem[base ..)
cfgpp_from_labview_variant(mem, base, data_size, case10) ==
    IF ~VariantSizeOk(data_size)
    THEN DRes("CFGPP_ERROR_INVALID_PARAMETER", Unset, 0)
    ELSE IF ~Mapped(mem, base, 4) THEN DRes(Crash, Unset, base + 4)
    ELSE CaseBody(mem, base, base + HeaderSize,
                  SwitchCase(WordAt(mem, base), case10))

Max(a, b) == IF a >= b THEN a ELSE b

\* a cluster loop that stores no field
StoreField_Never(map, name, r) == map

\* the cluster loop's treatment of one field's decode: the map after it
StoreField(map, name, r) ==
    IF r.rc = "CFGPP_SUCCESS" THEN MapSet(map, name, r.value) ELSE map

\* whether the cluster loop goes on to the header at offset
ClusterHeaderFits(offset, data_size) == offset + HeaderSize <= data_size

RECURSIVE ClusterLoop(_, _, _, _, _, _, _, _)

\* the rest of one round of the cluster loop after the field's decode
\* returned r, the header's data_size being hsize
ClusterField(mem, data_size, field_names, field_count, case10, i, offset, acc, hsize, r) ==
    IF r.rc = Crash THEN DRes(Crash, Unset, Max(acc.extent, r.extent))
    ELSE ClusterLoop(mem, data_size, field_names, field_count, case10,
                     i + 1, offset + HeaderSize + hsize,
                     [map |-> StoreField(acc.map, field_names[i + 1], r),
                      extent |-> Max(Max(acc.extent, offset + DataSizeOffset + 4),
                                     r.extent)])

\* one round of the cluster loop for the header at offset
ClusterRecord(mem, data_size, field_names, field_count, case10, i, offset, acc, hsize) ==
    ClusterField(mem, data_size, field_names, field_count, case10, i, offset, acc,
                 hsize,
                 cfgpp_from_labview_variant(mem, offset, hsize + HeaderSize, case10))

\* the for loop of cfgpp_from_labview_cluster and the return after it
ClusterLoop(mem, data_size, field_names, field_count, case10, i, offset, acc) ==
    IF i < field_count /\ offset < data_size /\ ClusterHeaderFits(offset, data_size)
    THEN IF ~Mapped(mem, offset, HeaderSize)
         THEN DRes(Crash, Unset, offset + HeaderSize)
         ELSE ClusterRecord(mem, data_size, field_names, field_count, case10,
                            i, offset, acc, WordAt(mem, offset + DataSizeOffset))
    ELSE DRes("CFGPP_SUCCESS", MkObject(acc.map), acc.extent)

\* cfgpp_from_labview_cluster
cfgpp_from_labview_cluster(mem, data_size, field_names, field_count, case10) ==
    IF field_count = 0
    THEN DRes("CFGPP_ERROR_INVALID_PARAMETER", Unset, 0)
    ELSE ClusterLoop(mem, data_size, field_names, field_count, case10, 0, 0,
                     [map |-> EmptyMap, extent |-> 0])


\* ------------------------------------------------------------------------
\* cfgpp_parse_string
\* ------------------------------------------------------------------------

\* CfgppParser() as cfgpp_parser_create leaves it
NewParser ==
    [tokens |-> <<>>, current_token_pos |-> 0, last_error |-> <<>>,
     last_error_line |-> 0, last_error_column |-> 0]

\* what a failed tokenize leaves in the parser's error members
RecordLexError(p, t) ==
    [p EXCEPT !.last_error = t.last_error,
              !.last_error_line = t.line,
              !.last_error_column = t.column]

\* the return code for what parse_value returned or threw
ParseReturnCode(v) ==
    IF v = Thrown THEN "CFGPP_ERROR_MEMORY_ERROR"
    ELSE IF v = NullPtr THEN "CFGPP_ERROR_INVALID_SYNTAX"
    ELSE "CFGPP_SUCCESS"

\* a cfgpp_parse_string that accepts a value only when END_OF_FILE follows
AfterParse_WholeText(p, r) ==
    IF IsValue(r.v) /\ Tok(p.tokens, r.pos).type # "END_OF_FILE"
    THEN [rc |-> "CFGPP_ERROR_INVALID_SYNTAX",
          parser |-> [p EXCEPT !.current_token_pos = r.pos,
                               !.last_error = r.last_error],
          result |-> Unset]
    ELSE [rc |-> ParseReturnCode(r.v),
          parser |-> [p EXCEPT !.current_token_pos = r.pos,
                               !.last_error = r.last_error],
          result |-> IF IsValue(r.v) THEN r.v ELSE Unset]

\* a cfgpp_parse_string that assigns *result before it tests value
AfterParse_ResultFirst(p, r) ==
    [rc |-> ParseReturnCode(r.v),
     parser |-> [p EXCEPT !.current_token_pos = r.pos,
                          !.last_error = r.last_error],
     result |-> r.v]

\* cfgpp_parse_string after parse_value returned r: [rc, parser, result]
AfterParse(p, r) ==
    [rc |-> ParseReturnCode(r.v),
     parser |-> [p EXCEPT !.current_token_pos = r.pos,
                          !.last_error = r.last_error],
     result |-> IF IsValue(r.v) THEN r.v ELSE Unset]

\* a cfgpp_parse_string without parser->current_token_pos = 0
AfterTokenize_NoReset(p, t) ==
    IF t.tokens = <<>>
    THEN [rc |-> "CFGPP_ERROR_INVALID_SYNTAX",
          parser |-> [RecordLexError(p, t) EXCEPT !.tokens = t.tokens],
          result |-> Unset]
    ELSE AfterParse([p EXCEPT !.tokens = t.tokens],
                    parse_value(t.tokens, p.current_token_pos, p.last_error))

\* cfgpp_parse_string after tokenize returned t
AfterTokenize(p, t) ==
    IF t.tokens = <<>>
    THEN [rc |-> "CFGPP_ERROR_INVALID_SYNTAX",
          parser |-> [RecordLexError(p, t) EXCEPT !.tokens = t.tokens],
          result |-> Unset]
    ELSE AfterParse([p EXCEPT !.tokens = t.tokens],
                    parse_value(t.tokens, 0, p.last_error))

\* cfgpp_parse_string: [rc, parser, result] with result the out-parameter
\* *result as the call leaves it (Unset: not written)
cfgpp_parse_string(p, config_text, dollar_eol) ==
    IF config_text = NullPtr
    THEN [rc |-> "CFGPP_ERROR_INVALID_PARAMETER", parser |-> p, result |-> Unset]
    ELSE AfterTokenize(p, tokenize(config_text, dollar_eol))

\* ------------------------------------------------------------------------
\* Schemas (struct CfgppSchema, cfgpp_schema_parse_string,
\* cfgpp_validate_value)
\*
\* A CfgppSchema is [enum_definitions, object_schemas]: enum_definitions
\* maps an enum name to its vector of members, object_schemas an object
\* name to its map from field names to type names.
\* ------------------------------------------------------------------------

\* CfgppSchema() as cfgpp_schema_create leaves it
NewSchema == [enum_definitions |-> EmptyMap, object_schemas |-> EmptyMap]

\* whether the literal lit occurs in line (find(lit) != npos)
Contains(line, lit) ==
    \E i \in 0..(Len(line) - Len(lit)) : StartsWith(line, i, lit)

\* line.find(lit) when lit occurs in line (0-based)
Find(line, lit) ==
    CHOOSE i \in 0..(Len(line) - Len(lit)) :
        /\ StartsWith(line, i, lit)
        /\ \A j \in 0..(i - 1) : ~StartsWith(line, j, lit)

\* s.erase(0, s.find_first_not_of(set)): all of s goes when every
\* character is in set (erase(0, npos))
EraseLeading(s, set) ==
    IF \A i \in 1..Len(s) : s[i] \in set THEN <<>>
    ELSE SubSeq(s, CHOOSE i \in 1..Len(s) :
                       s[i] \notin set /\ \A j \in 1..(i - 1) : s[j] \in set,
                Len(s))

\* s.erase(s.find_last_not_of(set) + 1): all of s goes when every
\* character is in set (npos + 1 is 0)
EraseTrailing(s, set) ==
    IF \A i \in 1..Len(s) : s[i] \in set THEN <<>>
    ELSE SubSeq(s, 1, CHOOSE i \in 1..Len(s) :
                          s[i] \notin set /\ \A j \in (i + 1)..Len(s) : s[j] \in set)

Blank == {" ", "\t"}

\* the erase pair applied to line, enum_name, current_object, field_name
Trim(s) == EraseTrailing(EraseLeading(s, Blank), Blank)

\* the erase pair applied to field_type: a trailing ';' goes too
TrimType(s) == EraseTrailing(EraseLeading(s, Blank), Blank \cup {";"})

RECURSIVE Lines(_)
\* the lines std::getline reads from text
Lines(text) ==
    IF text = <<>> THEN <<>>
    ELSE IF ~Contains(text, <<"\n">>) THEN <<text>>
    ELSE <<Substr(text, 0, Find(text, <<"\n">>))>>
         \o Lines(Substr(text, Find(text, <<"\n">>) + 1,
                         Len(text) - Find(text, <<"\n">>) - 1))

\* "Parse enum definitions": st is [schema, current_object]
EnumStep(line, st) ==
    IF StartsWith(line, 0, <<"e", "n", "u", "m", " ">>) /\ Contains(line, <<"{">>)
    THEN [st EXCEPT !.schema.enum_definitions =
             MapSet(@, Trim(Substr(line, 5, Find(line, <<"{">>) - 5)), <<>>)]
    ELSE st

\* "Parse object schemas"
ObjectStep(line, st) ==
    IF Contains(line, <<"{">>) /\ ~Contains(line, <<"e", "n", "u", "m">>)
    THEN [st EXCEPT !.current_object = Trim(Substr(line, 0, Find(line, <<"{">>)))]
    ELSE st

\* object_schemas[current_object][field_name] = field_type
SetField(object_schemas, current_object, field_name, field_type) ==
    MapSet(object_schemas, current_object,
           MapSet(IF current_object \in DOMAIN object_schemas
                  THEN object_schemas[current_object] ELSE EmptyMap,
                  field_name, field_type))

\* "Parse field definitions within objects"
FieldStep(line, st) ==
    IF st.current_object # <<>> /\ Contains(line, <<":">>)
    THEN [st EXCEPT !.schema.object_schemas =
             SetField(@, st.current_object,
                      Trim(Substr(line, 0, Find(line, <<":">>))),
                      TrimType(Substr(line, Find(line, <<":">>) + 1,
                                      Len(line) - Find(line, <<":">>) - 1)))]
    ELSE st

\* if (line.find('}') != npos) current_object.clear()
CloseStep(line, st) ==
    IF Contains(line, <<"}">>) THEN [st EXCEPT !.current_object = <<>>] ELSE st

\* the body of the getline loop for the line as trimmed
SchemaLine(line, st) ==
    IF line = <<>> \/ line[1] = "/" \/ line[1] = "#" THEN st
    ELSE CloseStep(line, FieldStep(line, ObjectStep(line, EnumStep(line, st))))

RECURSIVE SchemaLoop(_, _)
\* the getline loop
SchemaLoop(lines, st) ==
    IF lines = <<>> THEN st
    ELSE SchemaLoop(Tail(lines), SchemaLine(Trim(Head(lines)), st))

\* cfgpp_schema_parse_string: [rc, schema]
cfgpp_schema_parse_string(schema, schema_text) ==
    IF schema_text = NullPtr
    THEN [rc |-> "CFGPP_ERROR_INVALID_PARAMETER", schema |-> schema]
    ELSE [rc |-> "CFGPP_SUCCESS",
          schema |-> SchemaLoop(Lines(schema_text),
                                [schema |-> schema, current_object |-> <<>>]).schema]

\* the built-in type names and the CfgppValueType each stands for
BuiltinTypes ==
    [name \in { <<"s", "t", "r", "i", "n", "g">>,
                <<"i", "n", "t", "e", "g", "e", "r">>,
                <<"d", "o", "u", "b", "l", "e">>,
                <<"b", "o", "o", "l", "e", "a", "n">>,
                <<"a", "r", "r", "a", "y">>,
                <<"o", "b", "j", "e", "c", "t">> } |->
        CASE name[1] = "s" -> "STRING"
          [] name[1] = "i" -> "INTEGER"
          [] name[1] = "d" -> "DOUBLE"
          [] name[1] = "b" -> "BOOLEAN"
          [] name[1] = "a" -> "ARRAY"
          [] name[1] = "o" -> "OBJECT"]

\* a validate_type for which every Enum value is of every declared enum
validate_type_AnyMember(schema, expected_type, value) ==
    IF expected_type \in DOMAIN BuiltinTypes
    THEN value[1] = BuiltinTypes[expected_type]
    ELSE expected_type \in DOMAIN schema.enum_definitions /\ value[1] = "ENUM"

\* CfgppSchema::validate_type
validate_type(schema, expected_type, value) ==
    IF expected_type \in DOMAIN BuiltinTypes
    THEN value[1] = BuiltinTypes[expected_type]
    ELSE IF expected_type \in DOMAIN schema.enum_definitions
    THEN /\ value[1] = "ENUM"
         /\ \E i \in 1..Len(schema.enum_definitions[expected_type]) :
                schema.enum_definitions[expected_type][i] = value[2]
    ELSE FALSE

\* enum_definitions[name] of a std::unordered_map: an absent key is
\* inserted with an empty vector
IndexEnum(schema, name) ==
    IF name \in DOMAIN schema.enum_definitions THEN schema
    ELSE [schema EXCEPT !.enum_definitions = MapSet(@, name, <<>>)]

\* a validate_type that reads enum_definitions[expected_type] without the
\* find before it
SchemaAfterType_Index(schema, expected_type, value) ==
    IF expected_type \in DOMAIN BuiltinTypes THEN schema
    ELSE IndexEnum(schema, expected_type)

\* the schema after CfgppSchema::validate_type: the function is not const,
\* and reads enum_definitions[expected_type] once find has found the key
\* and the value is an Enum
SchemaAfterType(schema, expected_type, value) ==
    IF expected_type \in DOMAIN BuiltinTypes THEN schema
    ELSE IF expected_type \in DOMAIN schema.enum_definitions /\ value[1] = "ENUM"
    THEN IndexEnum(schema, expected_type)
    ELSE schema

\* the permutations of a finite set, as sequences: the orders in which a
\* std::unordered_map may be iterated
Perms(S) ==
    {f \in [1..Cardinality(S) -> S] : \A i, j \in 1..Cardinality(S) : f[i] = f[j] => i = j}

\* the iteration orders over a schema's object_schemas: the order of the
\* schemas, and of each schema's fields
IterationOrders(schema) ==
    [schemas : Perms(DOMAIN schema.object_schemas),
     fields  : [DOMAIN schema.object_schemas -> UNION {Perms(DOMAIN schema.object_schemas[n]) :
                                                         n \in DOMAIN schema.object_schemas}]]

\* the orders that are orders of the maps they iterate
IsOrderOf(schema, order) ==
    \A n \in DOMAIN schema.object_schemas :
        order.fields[n] \in Perms(DOMAIN schema.object_schemas[n])

\* the messages appended to errors
MissingField(field_name) == <<"missing", field_name>>
WrongType(field_name, field_type) == <<"wrong type", field_name, field_type>>

\* the length of the text of a message:
\*   "Missing required field: " + field_name + "; "
\*   "Field '" + field_name + "' has wrong type, expected " + field_type + "; "
MessageLength(msg) ==
    IF msg[1] = "missing" THEN 24 + Len(msg[2]) + 2
    ELSE 7 + Len(msg[2]) + 27 + Len(msg[3]) + 2

RECURSIVE ErrorsLength(_)
\* errors.length()
ErrorsLength(errors) ==
    IF errors = <<>> THEN 0
    ELSE MessageLength(Head(errors)) + ErrorsLength(Tail(errors))

RECURSIVE FieldErrors(_, _, _, _)
\* the inner loop of cfgpp_validate_value over the fields of one schema
\* in the order given: the messages it appends
FieldErrors(schema, schema_fields, map, order) ==
    IF order = <<>> THEN <<>>
    ELSE (IF Head(order) \notin DOMAIN map
          THEN <<MissingField(Head(order))>>
          ELSE IF ~validate_type(schema, schema_fields[Head(order)], map[Head(order)])
          THEN <<WrongType(Head(order), schema_fields[Head(order)])>>
          ELSE <<>>)
         \o FieldErrors(schema, schema_fields, map, Tail(order))

RECURSIVE SchemaErrors(_, _, _, _)

\* the outer loop after one schema appended errs: matches is errs = <<>>
AfterSchema(schema, map, order, rest, errs) ==
    IF errs = <<>> THEN <<>>
    ELSE errs \o SchemaErrors(schema, map, order, rest)

\* the outer loop of cfgpp_validate_value over the schemas rest: the
\* messages it appends, up to the first schema that matches
SchemaErrors(schema, map, order, rest) ==
    IF rest = <<>> THEN <<>>
    ELSE AfterSchema(schema, map, order, Tail(rest),
                     FieldErrors(schema, schema.object_schemas[Head(rest)], map,
                                 order.fields[Head(rest)]))

RECURSIVE SchemaAfterFields(_, _, _, _)
\* the schema after the inner loop of cfgpp_validate_value over the fields
\* of object-schema n in the order given: validate_type is called for the
\* fields the value has
SchemaAfterFields(schema, n, map, order) ==
    IF order = <<>> THEN schema
    ELSE SchemaAfterFields(IF Head(order) \in DOMAIN map
                           THEN SchemaAfterType(schema, schema.object_schemas[n][Head(order)],
                                                map[Head(order)])
                           ELSE schema,
                           n, map, Tail(order))

RECURSIVE SchemaAfterSchemas(_, _, _, _)
\* the schema after the outer loop of cfgpp_validate_value over the
\* schemas rest, up to the first that matches
SchemaAfterSchemas(schema, map, order, rest) ==
    IF rest = <<>> THEN schema
    ELSE IF FieldErrors(schema, schema.object_schemas[Head(rest)], map,
                        order.fields[Head(rest)]) = <<>>
    THEN SchemaAfterFields(schema, Head(rest), map, order.fields[Head(rest)])
    ELSE SchemaAfterSchemas(SchemaAfterFields(schema, Head(rest), map,
                                              order.fields[Head(rest)]),
                            map, order, Tail(rest))

\* the schema after cfgpp_validate_value
SchemaAfterValidate(schema, value, order) ==
    IF value[1] = "OBJECT"
    THEN SchemaAfterSchemas(schema, value[2], order, order.schemas)
    ELSE schema

\* the value tree after cfgpp_validate_value: the call reads the value
\* through a const reference to its map and map.find
ValueAfterValidate(value) == value

\* what cfgpp_validate_value returns for the errors collected
ValidateReturn(errors, buffer_size) ==
    [rc |-> IF buffer_size < ErrorsLength(errors) + 1
            THEN "CFGPP_ERROR_BUFFER_TOO_SMALL"
            ELSE IF errors = <<>> THEN "CFGPP_SUCCESS"
            ELSE "CFGPP_ERROR_INVALID_SYNTAX",
     errors |-> errors,
     error_length |-> ErrorsLength(errors)]

\* a cfgpp_validate_value without the test value->type == CFGPP_TYPE_OBJECT:
\* a value that is no Object has no fields
cfgpp_validate_value_AnyType(schema, value, buffer_size, order) ==
    ValidateReturn(SchemaErrors(schema,
                                IF value[1] = "OBJECT" THEN value[2] ELSE EmptyMap,
                                order, order.schemas),
                   buffer_size)

\* cfgpp_validate_value under an iteration order: [rc, errors, error_length]
cfgpp_validate_value(schema, value, buffer_size, order) ==
    ValidateReturn(IF value[1] = "OBJECT"
                   THEN SchemaErrors(schema, value[2], order, order.schemas)
                   ELSE <<>>,
                   buffer_size)

\* sizeof(error_buffer) in cfgpp_variant_to_file_validated
ErrorBufferSize == 512

\* cfgpp_variant_to_file_validated after the decode returned d, up to its
\* call of cfgpp_value_serialize_to_file: the stage it returns at, or
\* "serialize" when validation passed, and the code it has then
AfterDecode(schema, order, d) ==
    IF d.rc # "CFGPP_SUCCESS" THEN [stage |-> "decode", rc |-> d.rc, value |-> d.value]
    ELSE IF cfgpp_validate_value(schema, d.value, ErrorBufferSize, order).rc # "CFGPP_SUCCESS"
    THEN [stage |-> "validate",
          rc |-> cfgpp_validate_value(schema, d.value, ErrorBufferSize, order).rc,
          value |-> d.value]
    ELSE [stage |-> "serialize", rc |-> "CFGPP_SUCCESS", value |-> d.value]

\* cfgpp_variant_to_file_validated up to the write of the file
cfgpp_variant_to_file_validated(mem, data_size, schema, order, case10) ==
    AfterDecode(schema, order, cfgpp_from_labview_variant(mem, 0, data_size, case10))

\* ------------------------------------------------------------------------
\* cfgpp_generate_schema_from_cluster
\* ------------------------------------------------------------------------

\* the two lines the schema text starts with, and its last line
SchemaTextHead ==
    <<"/", "/", " ", "A", "u", "t", "o", "-", "g", "e", "n", "e", "r",
       "a", "t", "e", "d", " ", "C", "F", "G", "+", "+", " ", "s", "c",
       "h", "e", "m", "a", " ", "f", "r", "o", "m", " ", "L", "a", "b",
       "V", "I", "E", "W", " ", "c", "l", "u", "s", "t", "e", "r", "\n">>
    \o <<"C", "l", "u", "s", "t", "e", "r", "S", "c", "h", "e", "m", "a", " ", "{", "\n">>
SchemaTextTail == <<"}", "\n">>

\* cfgpp_type for the case the switch takes
TypeNameOf(label) ==
    CASE label = "BOOLEAN" -> <<"b", "o", "o", "l", "e", "a", "n">>
      [] label \in {"I8", "I16", "I32", "I64", "U8", "U16", "U32", "U64"} ->
           <<"i", "n", "t", "e", "g", "e", "r">>
      [] label \in {"SGL", "DBL"} -> <<"d", "o", "u", "b", "l", "e">>
      [] label = "STRING" -> <<"s", "t", "r", "i", "n", "g">>
      [] OTHER -> <<"u", "n", "k", "n", "o", "w", "n">>

\* schema_stream << "    " << field_names[i] << ": " << cfgpp_type << ";\n"
FieldLine(field_name, cfgpp_type) ==
    <<" ", " ", " ", " ">> \o field_name \o <<":", " ">> \o cfgpp_type \o <<";", "\n">>

RECURSIVE GenerateLoop(_, _, _, _, _, _, _, _)
\* the for loop of cfgpp_generate_schema_from_cluster: the text streamed
\* when it ends
GenerateLoop(mem, data_size, field_names, field_count, case10, i, offset, text) ==
    IF i < field_count /\ offset < data_size /\ ClusterHeaderFits(offset, data_size)
    THEN GenerateLoop(mem, data_size, field_names, field_count, case10, i + 1,
                      offset + HeaderSize + WordAt(mem, offset + DataSizeOffset),
                      text \o FieldLine(field_names[i + 1],
                                        TypeNameOf(SwitchCase(WordAt(mem, offset), case10))))
    ELSE text

\* the end of cfgpp_generate_schema_from_cluster for the text streamed:
\* [rc, schema_buffer, actual_size], schema_buffer Unset when not written
GenerateReturn(schema_text, buffer_size) ==
    IF buffer_size < Len(schema_text) + 1
    THEN [rc |-> "CFGPP_ERROR_BUFFER_TOO_SMALL", schema_buffer |-> Unset,
          actual_size |-> Len(schema_text)]
    ELSE [rc |-> "CFGPP_SUCCESS", schema_buffer |-> schema_text,
          actual_size |-> Len(schema_text)]

\* cfgpp_generate_schema_from_cluster
cfgpp_generate_schema_from_cluster(mem, data_size, field_names, field_count, buffer_size, case10) ==
    GenerateReturn(GenerateLoop(mem, data_size, field_names, field_count, case10,
                                0, 0, SchemaTextHead) \o SchemaTextTail,
                   buffer_size)

\* ------------------------------------------------------------------------
\* Inputs
\* ------------------------------------------------------------------------

MaxFields  == 2
MaxElems   == 2
MaxNumLen  == 4
MaxPieces  == 3
MaxRecords == 2
MaxCut     == 3
MaxSchemaParses == 2
MaxCalls   == 3
SlackLen   == 8
MaxGenFields == 2

\* all sequences over S of length 0..n
SeqsUpTo(S, n) == UNION {[1..k -> S] : k \in 0..n}

RECURSIVE Concat(_)
\* the concatenation of a sequence of sequences
Concat(ss) == IF ss = <<>> THEN <<>> ELSE Head(ss) \o Concat(Tail(ss))

RECURSIVE JoinSpace(_)
\* lexemes separated by single spaces
JoinSpace(ls) ==
    IF ls = <<>> THEN <<>>
    ELSE IF Len(ls) = 1 THEN Head(ls)
    ELSE Head(ls) \o <<" ">> \o JoinSpace(Tail(ls))

\* int64_t of a small number
I64(n) == [i \in 1..8 |-> IF i = 1 THEN n ELSE 0]

\* the value shapes documents are built from: the lexemes of a value and
\* the tree the grammar gives it
Shapes ==
    << [lex  |-> << <<"1">> >>,
        tree |-> MkInteger(I64(1))],
       [lex  |-> << <<"\"", "x", "\"">> >>,
        tree |-> MkString(<<"x">>)],
       [lex  |-> << <<"b">> >>,
        tree |-> MkEnum(<<"b">>)],
       [lex  |-> << <<"{">>, <<"}">> >>,
        tree |-> MkObject(EmptyMap)],
       [lex  |-> << <<"n">>, <<"{">>, <<"a">>, <<"=">>, <<"2">>, <<"}">> >>,
        tree |-> MkObject(MapSet(EmptyMap, <<"a">>, MkInteger(I64(2))))],
       [lex  |-> << <<"[">>, <<"1">>, <<"b">>, <<"]">> >>,
        tree |-> MkArray(<<MkInteger(I64(1)), MkEnum(<<"b">>)>>)] >>

Keys == {<<"a">>, <<"b">>}

\* one field of an object document: key '=' value [';'], the value of any
\* shape (AnyField) or an Integer, a String or a named Object (FieldSet)
AnyField == [key : Keys, shape : 1..Len(Shapes), semi : BOOLEAN]
FieldSet == [key : Keys, shape : {1, 2, 5}, semi : BOOLEAN]
\* one element of an array document: value [',']
ElemSet == [shape : 1..Len(Shapes), comma : BOOLEAN]

FieldLex(f) ==
    <<f.key, <<"=">>>> \o Shapes[f.shape].lex \o (IF f.semi THEN << <<";">> >> ELSE <<>>)

ElemLex(e) ==
    Shapes[e.shape].lex \o (IF e.comma THEN << <<",">> >> ELSE <<>>)

\* [name] '{' (IDENTIFIER '=' value [';'])* '}'
DocLex(named, fields) ==
    (IF named THEN << <<"c", "f", "g">> >> ELSE <<>>)
    \o << <<"{">> >>
    \o Concat([i \in 1..Len(fields) |-> FieldLex(fields[i])])
    \o << <<"}">> >>

\* '[' (value [','])* ']'
ArrLex(elems) ==
    << <<"[">> >>
    \o Concat([i \in 1..Len(elems) |-> ElemLex(elems[i])])
    \o << <<"]">> >>

NumAlphabet == {"1", "0", ".", "e", "E", "-"}
LexPieces ==
    { <<"\"">>, <<"\n">>, <<"%">>, <<"a">>, <<" ">>, <<"{">>, <<"}">>,
      <<"$", "{", "a", ":", "-">> }

\* literals too long to enumerate: out of the range of int64_t and of
\* double, LLONG_MAX itself, and comments
TwentyNines == [i \in 1..20 |-> "9"]
SpecialTexts ==
    { TwentyNines,
      LLongMaxDigits,
      <<"1", "e", "9", "9", "9">>,
      <<"[", "1", " ">> \o TwentyNines \o <<"]">>,
      <<"{", "a", "=", "1", "e", "9", "9", "9", "}">>,
      <<"4", "2">>, <<"4", "2", ".", "0">>, <<"1", "e", "3">>,
      <<"M", "U", "L", "T", "I", "M", "E", "T", "E", "R">>,
      <<"/", "/", "x">>,
      <<"/", "/", "x", "\n", "1">>,
      <<"1", " ", "/", "/", "x", "\n", "%">>,
      <<"\"", "\n", "\"", "%">>,
      <<"$", "{", "a", ":", "-", "\n", "}", "%">>,
      <<"a", "{", "a", "%">>,
      <<"{", " ", "a", " ", "=", " ", "1">>, <<"[", " ", "1">>,
      <<"[", " ", "1", " ", ",", " ", "2">>,
      <<"1", " ", "2", " ", "3">>,
      <<"a", " ", "{">>,
      <<"=">> }

\* EXAMPLE_CONFIG of the example program, shortened: its first line and
\* comment, its first block with two of its fields and the nested block
\* calibration, and its last block with one instrument
ExampleConfig ==
    <<"\n", "/", "/", " ", "E", "x", "a", "m", "p", "l", "e", "\n", "m",
       "e", "a", "s", "u", "r", "e", "m", "e", "n", "t", "_", "c", "o",
       "n", "f", "i", "g", " ", "{", "\n", " ", " ", " ", " ", "s", "a",
       "m", "p", "l", "e", "_", "r", "a", "t", "e", " ", "=", " ", "1",
       "0", "0", "0", ";", "\n", " ", " ", " ", " ", "e", "n", "a", "b",
       "l", "e", "_", "l", "o", "g", "g", "i", "n", "g", " ", "=", " ",
       "t", "r", "u", "e", ";", "\n", "\n", " ", " ", " ", " ", "c", "a",
       "l", "i", "b", "r", "a", "t", "i", "o", "n", " ", "{", "\n", " ",
       " ", " ", " ", " ", " ", " ", " ", "v", "o", "l", "t", "a", "g",
       "e", "_", "o", "f", "f", "s", "e", "t", " ", "=", " ", "0", ".",
       "0", "1", ";", "\n", " ", " ", " ", " ", "}", "\n", "}", "\n",
       "\n", "i", "n", "s", "t", "r", "u", "m", "e", "n", "t", "s", " ",
       "{", "\n", " ", " ", " ", " ", "p", "r", "i", "m", "a", "r", "y",
       " ", "=", " ", "{", "\n", " ", " ", " ", " ", " ", " ", " ", " ",
       "t", "y", "p", "e", " ", "=", " ", "M", "U", "L", "T", "I", "M",
       "E", "T", "E", "R", ";", "\n", " ", " ", " ", " ", "}", ";", "\n",
       "}", "\n">>

\* two top-level named blocks, as in EXAMPLE_CONFIG
ExampleBlocks ==
    <<"m", "e", "a", "s", "u", "r", "e", "m", "e", "n", "t", "_", "c",
       "o", "n", "f", "i", "g", " ", "{", "\n", " ", " ", " ", " ", "s",
       "a", "m", "p", "l", "e", "_", "r", "a", "t", "e", " ", "=", " ",
       "1", "0", "0", "0", ";", "\n", "}", "\n", "i", "n", "s", "t", "r",
       "u", "m", "e", "n", "t", "s", " ", "{", "\n", " ", " ", " ", " ",
       "p", "r", "i", "m", "a", "r", "y", " ", "=", " ", "1", ";", "\n",
       "}", "\n">>

\* a named block nested in a block without '=', as calibration in
\* EXAMPLE_CONFIG
ExampleNested ==
    <<"m", "e", "a", "s", "u", "r", "e", "m", "e", "n", "t", "_", "c",
       "o", "n", "f", "i", "g", " ", "{", "\n", " ", " ", " ", " ", "s",
       "a", "m", "p", "l", "e", "_", "r", "a", "t", "e", " ", "=", " ",
       "1", "0", "0", "0", ";", "\n", " ", " ", " ", " ", "c", "a", "l",
       "i", "b", "r", "a", "t", "i", "o", "n", " ", "{", "\n", " ", " ",
       " ", " ", " ", " ", " ", " ", "g", "a", "i", "n", " ", "=", " ",
       "1", ";", "\n", " ", " ", " ", " ", "}", "\n", "}", "\n">>

ExampleTexts == {ExampleConfig, ExampleBlocks, ExampleNested}

\* identifier-shaped words that begin with a keyword: the keyword's token
\* kind, the keyword, and the rest of the word
KeywordWords ==
    { [kind |-> "NULL_KW",
       kw |-> <<"n", "u", "l", "l">>, rest |-> <<"a", "b", "l", "e">>],
      [kind |-> "BOOLEAN",
       kw |-> <<"t", "r", "u", "e">>, rest |-> <<"_", "v", "a", "l">>],
      [kind |-> "BOOLEAN",
       kw |-> <<"f", "a", "l", "s", "e">>, rest |-> <<"y">>],
      [kind |-> "ENUM_KW",
       kw |-> <<"e", "n", "u", "m">>, rest |-> <<"e", "r", "a", "t", "e">>] }

\* an object whose one key is the word
KeyDoc(w) == <<"{", " ">> \o w.kw \o w.rest \o <<" ", "=", " ", "1", " ", "}">>

KeywordTexts == {w.kw \o w.rest : w \in KeywordWords} \cup {KeyDoc(w) : w \in KeywordWords}

\* texts with a // comment that is followed by further lines, and the same
\* texts without the comment
CommentPairs ==
    { [text    |-> <<"/", "/", "x", "\n", "1">>,
       without |-> <<"\n", "1">>],
      [text    |-> <<"a", " ", "=", " ", "1", " ", "/", "/", " ", "c", "\n", "b">>,
       without |-> <<"a", " ", "=", " ", "1", " ", "\n", "b">>],
      [text    |-> <<"/", "/", " ", "a", " ", "n", "u", "l", "l", "\n", "{", " ",
             "a", " ", "=", " ", "1", " ", "}", "\n">>,
       without |-> <<"\n", "{", " ", "a", " ", "=", " ", "1", " ", "}", "\n">>] }

\* the inputs of cfgpp_parse_string
ParseInputs ==
    {<<"doc", named, fields>> : named \in BOOLEAN, fields \in SeqsUpTo(FieldSet, MaxFields)}
    \cup {<<"doc", named, <<f>>>> : named \in BOOLEAN, f \in AnyField}
    \cup {<<"arr", elems>> : elems \in SeqsUpTo(ElemSet, MaxElems)}
    \cup {<<"text", t>> : t \in SeqsUpTo(NumAlphabet, MaxNumLen)}
    \cup {<<"text", Concat(ps)>> : ps \in SeqsUpTo(LexPieces, MaxPieces)}
    \cup {<<"text", t>> : t \in SpecialTexts}
    \cup {<<"text", t>> : t \in ExampleTexts}
    \cup {<<"text", t>> : t \in KeywordTexts}
    \cup {<<"text", p.text>> : p \in CommentPairs}
    \cup {<<"null">>}

\* the config_text argument of an input
TextOf(inp) ==
    CASE inp[1] = "doc"  -> JoinSpace(DocLex(inp[2], inp[3]))
      [] inp[1] = "arr"  -> JoinSpace(ArrLex(inp[2]))
      [] inp[1] = "text" -> inp[2]
      [] inp[1] = "null" -> NullPtr

\* a uint32_t below 2^30 as its 4 bytes
LE32(n) == <<n % 256, (n \div 256) % 256, (n \div 65536) % 256, n \div 16777216>>

\* one (header, payload) record: flags and dimensions are 0
RecordBytes(r) == LE32(r.tc) \o LE32(0) \o LE32(r.ds) \o LE32(0) \o r.pl

\* the records buffers are built from
Records ==
    << [tc |-> LABVIEW_TYPE_I32, ds |-> 4, pl |-> <<232, 3, 0, 0>>],
       [tc |-> LABVIEW_TYPE_BOOLEAN, ds |-> 1, pl |-> <<1>>],
       [tc |-> LABVIEW_TYPE_DBL, ds |-> 8,
        pl |-> <<110, 134, 27, 240, 249, 33, 9, 64>>],
       [tc |-> LABVIEW_TYPE_STRING, ds |-> 6, pl |-> <<2, 0, 0, 0, 104, 105>>],
       [tc |-> LABVIEW_TYPE_VOID, ds |-> 0, pl |-> <<>>],
       [tc |-> LABVIEW_TYPE_STRING, ds |-> 6, pl |-> <<9, 0, 0, 0, 104, 105>>],
       [tc |-> LABVIEW_TYPE_I32, ds |-> 0, pl |-> <<255, 255, 255, 255>>],
       [tc |-> LABVIEW_TYPE_CLUSTER, ds |-> 0, pl |-> <<>>],
       [tc |-> LABVIEW_TYPE_I8, ds |-> 1, pl |-> <<255>>],
       [tc |-> LABVIEW_TYPE_I16, ds |-> 2, pl |-> <<254, 255>>],
       [tc |-> LABVIEW_TYPE_I64, ds |-> 8, pl |-> <<1, 0, 0, 0, 0, 0, 0, 128>>],
       [tc |-> LABVIEW_TYPE_U8, ds |-> 1, pl |-> <<255>>],
       [tc |-> LABVIEW_TYPE_U16, ds |-> 2, pl |-> <<254, 255>>],
       [tc |-> LABVIEW_TYPE_U32, ds |-> 4, pl |-> <<255, 255, 255, 255>>],
       [tc |-> LABVIEW_TYPE_SGL, ds |-> 4, pl |-> <<0, 0, 192, 63>>],
       [tc |-> LABVIEW_TYPE_BOOLEAN, ds |-> 1, pl |-> <<0>>],
       [tc |-> LABVIEW_TYPE_ARRAY, ds |-> 0, pl |-> <<>>],
       [tc |-> LABVIEW_TYPE_VARIANT, ds |-> 0, pl |-> <<>>],
       [tc |-> LABVIEW_TYPE_STRING, ds |-> 19,
        pl |-> <<15, 0, 0, 0, 78, 73, 45, 68, 65, 81,
                 109, 120, 32, 68, 101, 118, 105, 99, 101>>],
       [tc |-> LABVIEW_TYPE_U64, ds |-> 8, pl |-> <<1, 0, 0, 0, 0, 0, 0, 128>>] >>

\* the records cluster buffers are built from (indices into Records)
ClusterRecords == 1..8

\* the field names a caller passes, in order
FieldNames ==
    << <<"r", "a", "t", "e">>, <<"e", "n", "a", "b", "l", "e", "d">>,
       <<"g", "a", "i", "n">>, <<"n", "a", "m", "e">> >>

\* what may lie in memory behind the caller's buffer: nothing mapped, or
\* SlackLen bytes of one value
Slacks == {<<>>} \cup {[i \in 1..SlackLen |-> b] : b \in {0, 255}}

\* the buffer of a sequence of records with its last cut bytes missing
BufferOf(recs, cut) ==
    LET full == Concat([i \in 1..Len(recs) |-> RecordBytes(Records[recs[i]])])
    IN  SubSeq(full, 1, Max(Len(full) - cut, 0))

\* the inputs of cfgpp_from_labview_variant: one record, cut, and the slack
VariantInputs ==
    [rec : 1..Len(Records), cut : 0..MaxCut, slack : Slacks]

\* the cluster create_measurement_cluster builds: an outer CLUSTER header
\* over the records I32(1000), DBL(3.14159), BOOLEAN(1) and
\* STRING("NI-DAQmx Device")
ExampleCluster ==
    [recs |-> <<1, 3, 2, 19>>, field_count |-> 4, cut |-> 0, slack |-> <<>>,
     outer |-> TRUE]

\* the field names the example passes with its cluster
ExampleFieldNames ==
    << <<"s", "a", "m", "p", "l", "e", "_", "r", "a", "t", "e">>,
       <<"v", "o", "l", "t", "a", "g", "e", "_", "t", "h", "r", "e", "s",
          "h", "o", "l", "d">>,
       <<"e", "n", "a", "b", "l", "e", "_", "l", "o", "g", "g", "i", "n",
          "g">>,
       <<"d", "e", "v", "i", "c", "e", "_", "n", "a", "m", "e">> >>

\* the inputs of cfgpp_from_labview_cluster: records one after another,
\* and the example's cluster
ClusterInputs ==
    [recs : SeqsUpTo(ClusterRecords, MaxRecords) \ {<<>>},
     field_count : 0..MaxRecords, cut : 0..MaxCut, slack : Slacks, outer : {FALSE}]
    \cup {ExampleCluster}

\* cluster.header of the example: type CLUSTER, data_size the bytes of the
\* records behind it
OuterHeader(data_size) ==
    LE32(LABVIEW_TYPE_CLUSTER) \o LE32(0) \o LE32(data_size) \o LE32(0)

\* the caller's buffer of an input
ClusterBuffer(inp) ==
    IF inp.outer
    THEN OuterHeader(Len(BufferOf(inp.recs, 0))) \o BufferOf(inp.recs, 0)
    ELSE BufferOf(inp.recs, inp.cut)

\* the field_names argument of an input
NamesOf(inp) ==
    IF inp.outer THEN ExampleFieldNames ELSE SubSeq(FieldNames, 1, inp.field_count)

\* the schema texts
\* the object schema on one line
SchemaOneLine ==
    <<"C", "f", "g", " ", "{", "x", ":", " ", "i", "n", "t", "e", "g",
       "e", "r", "}">>

\* the object schema, a line to each field
SchemaLines ==
    <<"C", "f", "g", " ", "{", "\n", " ", " ", "x", ":", " ", "i", "n",
       "t", "e", "g", "e", "r", "\n", "}">>

\* two fields, each ended by ';'
SchemaTwoFields ==
    <<"C", "f", "g", " ", "{", "\n", " ", " ", "x", ":", " ", "i", "n",
       "t", "e", "g", "e", "r", ";", "\n", " ", " ", "y", ":", " ", "s",
       "t", "r", "i", "n", "g", ";", "\n", "}", "\n">>

\* an enum declaration
SchemaEnum ==
    <<"e", "n", "u", "m", " ", "C", "o", "l", "o", "r", " ", "{", "\n",
       " ", " ", "R", "E", "D", "\n", "}", "\n">>

\* a comment line, and a field of an enum type
SchemaEnumField ==
    <<"/", "/", " ", "c", "\n", "P", " ", "{", "\n", "\t", "c", ":", " ",
       "C", "o", "l", "o", "r", "\n", "}">>

\* two object schemas
SchemaTwoObjects ==
    <<"Q", " ", "{", "\n", " ", " ", "x", ":", " ", "d", "o", "u", "b",
       "l", "e", "\n", "}", "\n", "C", "f", "g", " ", "{", "\n", " ",
       " ", "x", ":", " ", "s", "t", "r", "i", "n", "g", "\n", "}">>

SchemaTexts ==
    {SchemaOneLine, SchemaLines, SchemaTwoFields, SchemaEnum, SchemaEnumField,
     SchemaTwoObjects}

\* the inputs of cfgpp_schema_parse_string
SchemaInputs == SchemaTexts \cup {NullPtr}

\* the type names validate_type is asked for: the built-in names, a
\* declared enum, an object-schema name, and names that resolve to nothing
TypeNames ==
    DOMAIN BuiltinTypes
    \cup { <<"C", "o", "l", "o", "r">>, <<"C", "f", "g">>,
           <<"i", "n", "t", "e", "g", "e", "r", "}">>, <<>> }

\* a value of every CfgppValueType
SomeValues ==
    { MkNull, MkBoolean(TRUE), MkInteger(I64(5)), MkDouble(<<"dec", <<"5">>, 0>>),
      MkString(<<"s">>), MkEnum(<<"R", "E", "D">>),
      MkArray(<<MkInteger(I64(5))>>),
      MkObject(MapSet(EmptyMap, <<"x">>, MkInteger(I64(5)))) }

\* the values validated
ValidateValues ==
    { MkObject(MapSet(EmptyMap, <<"x">>, MkInteger(I64(5)))),
      MkObject(MapSet(EmptyMap, <<"x">>, MkString(<<"s">>))),
      MkObject(MapSet(MapSet(EmptyMap, <<"x">>, MkInteger(I64(5))),
                      <<"y">>, MkString(<<"s">>))),
      MkObject(MapSet(EmptyMap, <<"c">>, MkEnum(<<"R", "E", "D">>))),
      MkObject(EmptyMap) }
    \cup SomeValues

\* the sizes of the caller's error buffer
BufferSizes == {0, 1, 256}

\* the texts parsed one after another on one parser handle: values, a
\* lexing error, a missing '}', a literal out of range, no text, a token
\* that starts no value, a missing ']'
SeqTexts ==
    { <<"1">>, <<"\"", "x", "\"">>,
      <<"{", " ", "a", " ", "=", " ", "1", " ", "}">>,
      <<"a", " ", "{", " ", "}">>, <<"{", " ", "a">>, <<"%">>, TwentyNines, NullPtr,
      <<"=">>, <<"[", " ", "1">> }

\* the records of the clusters a schema is generated from (indices into
\* Records): I32, BOOLEAN, DBL, STRING, SGL and U64, all of supported type
GenRecords == {1, 2, 3, 4, 15, 20}

\* the field names of those clusters: labels as LabVIEW has them
GenNames ==
    { <<"r", "a", "t", "e">>, <<"S", "a", "m", "p", "l", "e", " ", "R", "a", "t", "e">>,
      <<"R", "a", "n", "g", "e", ":", " ", "m", "a", "x">> }

\* the generator's inputs: the records, as many distinct names, and the
\* size of the schema buffer
GenInputs ==
    { g \in [recs : SeqsUpTo(GenRecords, MaxGenFields) \ {<<>>},
             names : SeqsUpTo(GenNames, MaxGenFields) \ {<<>>},
             buffer_size : {64, 4096}] :
        /\ Len(g.names) = Len(g.recs)
        /\ \A i, j \in 1..Len(g.names) : g.names[i] = g.names[j] => i = j }

\* the texts whose loops are followed round by round: each way out of each
\* loop is taken, after no round, one round and several rounds
LoopTexts ==
    { <<"{", " ", "a", " ", "=", " ", "x", " ", ";", " ", "b", " ",
           "=", " ", "[", " ", "y", " ", ",", " ", "n", "u", "l", "l",
           " ", "]", " ", ";", " ", "}">>,
      <<"[", " ", "{", " ", "a", " ", "=", " ", "x", " ", "}", " ",
           ",", " ", "[", " ", "]", " ", ",", " ", "t", "r", "u", "e",
           " ", "]">>,
      <<"{", " ", "a", " ", "=", " ", "x">>,
      <<"[", " ", "x", " ", ",", " ", "y">>,
      <<"{", " ", ";", " ", "}">>,
      <<"{", " ", "a", " ", "x", " ", "}">>,
      <<"{", " ", "a", " ", "=", " ", "}">>,
      <<"[", " ", "=", " ", "]">>,
      <<"c", "f", "g", " ", "{", " ", "a", " ", "=", " ", "t", "r",
           "u", "e", " ", "b", " ", "=", " ", "\"", "x", "\"", " ", "c",
           " ", "=", " ", "C", " ", "}">>,
      <<"/", "/", "x", "\n", "[", " ", "x", " ", "]", "\n">>,
      <<"x", " ", "/", "/", "x", "\n", "%">>,
      <<"a", "{", "a", "%">>,
      <<"[", " ", "]">>,
      <<"{", " ", "}">> }

\* the cluster inputs whose loop is followed round by round: whole buffers
\* of I32 and STRING records, one with a length prefix beyond its payload
LoopClusters ==
    {inp \in ClusterInputs :
        /\ inp.cut = 0
        /\ inp.slack = <<>>
        /\ \A i \in 1..Len(inp.recs) : inp.recs[i] \in {1, 4, 6}}

\* the texts two threads parse at once on one parser handle
ConcTexts ==
    { <<"1">>, <<"\"", "x", "\"">>,
      <<"{", " ", "a", " ", "=", " ", "1", " ", "}">>, <<"%">> }

\* the threads
Threads == {1, 2}

\* ------------------------------------------------------------------------
\* The state machine: one API call on a freshly created parser
\* ------------------------------------------------------------------------

VARIABLES
    build,   \* what the build fixes: [case10, dollar_eol]
    parser,  \* the CfgppParser behind the handle
    pc,      \* "idle": created, no call yet; "running": in a loop of the
             \* call; "returned": the call returned
    call,    \* the call made: its arguments, return code and out-parameter
    schema,  \* the CfgppSchema behind the schema handle
    hist,    \* the calls that returned on the handle so far: [op, text, rc]
    thr,     \* the calls in progress on the parser, one to a thread
    frame    \* the local variables of the loop in progress

vars == <<build, parser, pc, call, schema, hist, thr, frame>>

\* case10: the case of the decoder's switch that type code 10 reaches;
\* dollar_eol: whether the regex engine matches '$' before a line terminator
Builds == [case10 : {"U64", "DBL"}, dollar_eol : BOOLEAN]

CallRecord(op, input, text, mem, data_size, field_names, field_count, rc, result, extent) ==
    [op |-> op, input |-> input, text |-> text, mem |-> mem,
     data_size |-> data_size, field_names |-> field_names,
     field_count |-> field_count, rc |-> rc, result |-> result,
     extent |-> extent]

\* no call is in progress
NoThreads == <<>>

\* no loop is in progress
NoFrame == [op |-> "none"]

NoCall == CallRecord("none", <<>>, <<>>, <<>>, 0, <<>>, 0, "", Unset, 0)

Init ==
    /\ build \in Builds
    /\ parser = NewParser
    /\ pc = "idle"
    /\ call = NoCall
    /\ schema = NewSchema
    /\ hist = <<>>
    /\ thr = NoThreads
    /\ frame = NoFrame

\* the state after cfgpp_parse_string returned r
ParseStringReturns(inp, text, r) ==
    /\ parser' = r.parser
    /\ call' = CallRecord("parse_string", inp, text, <<>>, 0, <<>>, 0,
                          r.rc, r.result, 0)

\* cfgpp_parse_string(parser, config_text, text_length, &result)
ParseString ==
    /\ pc = "idle"
    /\ \E inp \in ParseInputs :
         ParseStringReturns(inp, TextOf(inp),
                            cfgpp_parse_string(parser, TextOf(inp), build.dollar_eol))
    /\ pc' = "returned"
    /\ UNCHANGED <<build, frame, schema, hist, thr>>

\* the state after a decoder call on the buffer mem[0 .. data_size) returned r
DecodeReturns(op, inp, mem, data_size, names, r) ==
    call' = CallRecord(op, inp, <<>>, mem, data_size, names, Len(names),
                       r.rc, r.value, r.extent)

\* the call of cfgpp_from_labview_variant on the caller's buffer buf
VariantCall(inp, buf) ==
    DecodeReturns("from_labview_variant", inp, buf \o inp.slack, Len(buf), <<>>,
                  cfgpp_from_labview_variant(buf \o inp.slack, 0, Len(buf),
                                             build.case10))

\* cfgpp_from_labview_variant(variant_data, data_size, &result)
FromVariant ==
    /\ pc = "idle"
    /\ \E inp \in VariantInputs : VariantCall(inp, BufferOf(<<inp.rec>>, inp.cut))
    /\ pc' = "returned"
    /\ UNCHANGED <<build, frame, parser, schema, hist, thr>>

\* the call of cfgpp_from_labview_cluster on the caller's buffer buf
ClusterCall(inp, buf, names) ==
    DecodeReturns("from_labview_cluster", inp, buf \o inp.slack, Len(buf), names,
                  cfgpp_from_labview_cluster(buf \o inp.slack, Len(buf), names,
                                             Len(names), build.case10))

\* cfgpp_from_labview_cluster(cluster_data, data_size, field_names,
\*                            field_count, &result)
FromCluster ==
    /\ pc = "idle"
    /\ \E inp \in ClusterInputs :
         ClusterCall(inp, ClusterBuffer(inp), NamesOf(inp))
    /\ pc' = "returned"
    /\ UNCHANGED <<build, frame, parser, schema, hist, thr>>

Next == ParseString \/ FromVariant \/ FromCluster

Spec == Init /\ [][Next]_vars

\* ------------------------------------------------------------------------
\* Schema calls: cfgpp_schema_parse_string some times on one schema
\* handle, then a validation
\* ------------------------------------------------------------------------

\* a call that returned, as hist keeps it
Past(op, text, rc) == [op |-> op, text |-> text, rc |-> rc]

\* the state after cfgpp_schema_parse_string returned r
SchemaParseReturns(text, r) ==
    /\ schema' = r.schema
    /\ hist' = Append(hist, Past("schema_parse_string", text, r.rc))
    /\ call' = CallRecord("schema_parse_string", text, text, <<>>, 0, <<>>, 0,
                          r.rc, Unset, 0)

\* cfgpp_schema_parse_string(schema, schema_text, text_length)
SchemaParseString ==
    /\ pc = "idle"
    /\ Len(hist) < MaxSchemaParses
    /\ \E text \in SchemaInputs :
         SchemaParseReturns(text, cfgpp_schema_parse_string(schema, text))
    /\ UNCHANGED <<build, frame, parser, pc, thr>>

\* the state after cfgpp_validate_value returned r
ValidateReturns(value, buffer_size, order, r) ==
    /\ call' = CallRecord("validate_value",
                          [value |-> value, buffer_size |-> buffer_size, order |-> order,
                           schema |-> schema],
                          <<>>, <<>>, 0, <<>>, 0, r.rc,
                          [errors |-> r.errors, error_length |-> r.error_length,
                           value |-> ValueAfterValidate(value)], 0)
    /\ schema' = SchemaAfterValidate(schema, value, order)

\* cfgpp_validate_value(schema, value, error_buffer, buffer_size,
\*                      &error_length)
ValidateValue ==
    /\ pc = "idle"
    /\ \E value \in ValidateValues, buffer_size \in BufferSizes,
          order \in {o \in IterationOrders(schema) : IsOrderOf(schema, o)} :
         ValidateReturns(value, buffer_size, order,
                         cfgpp_validate_value(schema, value, buffer_size, order))
    /\ pc' = "returned"
    /\ UNCHANGED <<build, frame, parser, hist, thr>>

\* schema->validate_type(expected_type, value)
ValidateType ==
    /\ pc = "idle"
    /\ \E expected_type \in TypeNames, value \in SomeValues :
         /\ call' = CallRecord("validate_type",
                               [expected_type |-> expected_type, value |-> value,
                                schema |-> schema],
                               <<>>, <<>>, 0, <<>>, 0, "",
                               <<validate_type(schema, expected_type, value)>>, 0)
         /\ schema' = SchemaAfterType(schema, expected_type, value)
    /\ pc' = "returned"
    /\ UNCHANGED <<build, frame, parser, hist, thr>>

\* the state after cfgpp_variant_to_file_validated reached its last stage
VariantValidatedReturns(rec, order, buf, r) ==
    /\ call' = CallRecord("variant_to_file_validated",
                          [rec |-> rec, order |-> order, schema |-> schema],
                          <<>>, buf, Len(buf), <<>>, 0, r.rc,
                          [stage |-> r.stage, value |-> r.value], 0)
    /\ schema' = IF r.stage = "decode" THEN schema
                 ELSE SchemaAfterValidate(schema, r.value, order)

\* cfgpp_variant_to_file_validated(variant_data, data_size, file_path,
\*                                 schema) on a whole record
VariantToFileValidated ==
    /\ pc = "idle"
    /\ \E rec \in 1..Len(Records),
          order \in {o \in IterationOrders(schema) : IsOrderOf(schema, o)} :
         VariantValidatedReturns(rec, order, BufferOf(<<rec>>, 0),
                                 cfgpp_variant_to_file_validated(BufferOf(<<rec>>, 0),
                                                                 Len(BufferOf(<<rec>>, 0)),
                                                                 schema, order, build.case10))
    /\ pc' = "returned"
    /\ UNCHANGED <<build, frame, parser, hist, thr>>

NextSchema == SchemaParseString \/ ValidateValue \/ ValidateType \/ VariantToFileValidated

SpecSchema == Init /\ [][NextSchema]_vars

\* ------------------------------------------------------------------------
\* A schema generated from a cluster and used on the same cluster:
\* cfgpp_generate_schema_from_cluster, cfgpp_schema_parse_string of its
\* text into the fresh schema, cfgpp_from_labview_cluster,
\* cfgpp_validate_value.  frame holds the caller's buffers.
\* ------------------------------------------------------------------------

\* cfgpp_generate_schema_from_cluster(cluster_data, data_size, field_names,
\*                                    field_count, schema_buffer,
\*                                    buffer_size, &actual_size)
GenerateReturns(g, mem, r) ==
    /\ frame' = [op |-> "client", mem |-> mem, field_names |-> g.names,
                 schema_buffer |-> r.schema_buffer, value |-> Unset]
    /\ hist' = Append(hist, Past("generate_schema_from_cluster", r.schema_buffer, r.rc))
    /\ call' = CallRecord("generate_schema_from_cluster", g, <<>>, mem, Len(mem),
                          g.names, Len(g.names), r.rc, r.schema_buffer, 0)

GenerateSchema ==
    /\ pc = "idle"
    /\ hist = <<>>
    /\ \E g \in GenInputs :
         GenerateReturns(g, BufferOf(g.recs, 0),
                         cfgpp_generate_schema_from_cluster(BufferOf(g.recs, 0),
                                                            Len(BufferOf(g.recs, 0)),
                                                            g.names, Len(g.names),
                                                            g.buffer_size, build.case10))
    /\ UNCHANGED <<build, parser, pc, schema, thr>>

\* cfgpp_schema_parse_string(schema, schema_buffer, actual_size)
SchemaParseGenerated ==
    /\ pc = "idle"
    /\ Len(hist) = 1
    /\ hist[1].rc = "CFGPP_SUCCESS"
    /\ SchemaParseReturns(frame.schema_buffer,
                          cfgpp_schema_parse_string(schema, frame.schema_buffer))
    /\ UNCHANGED <<build, frame, parser, pc, thr>>

\* the state after cfgpp_from_labview_cluster returned r to the caller
DecodeClusterReturns(r) ==
    /\ frame' = [frame EXCEPT !.value = r.value]
    /\ hist' = Append(hist, Past("from_labview_cluster", <<>>, r.rc))
    /\ call' = CallRecord("from_labview_cluster", <<>>, <<>>, frame.mem, Len(frame.mem),
                          frame.field_names, Len(frame.field_names), r.rc, r.value,
                          r.extent)

\* cfgpp_from_labview_cluster(cluster_data, data_size, field_names,
\*                            field_count, &value)
DecodeCluster ==
    /\ pc = "idle"
    /\ Len(hist) = 2
    /\ DecodeClusterReturns(cfgpp_from_labview_cluster(frame.mem, Len(frame.mem),
                                                       frame.field_names,
                                                       Len(frame.field_names),
                                                       build.case10))
    /\ UNCHANGED <<build, parser, pc, schema, thr>>

\* cfgpp_validate_value(schema, value, error_buffer, buffer_size,
\*                      &error_length)
ValidateDecoded ==
    /\ pc = "idle"
    /\ Len(hist) = 3
    /\ hist[3].rc = "CFGPP_SUCCESS"
    /\ \E order \in {o \in IterationOrders(schema) : IsOrderOf(schema, o)} :
         ValidateReturns(frame.value, ErrorBufferSize, order,
                         cfgpp_validate_value(schema, frame.value, ErrorBufferSize, order))
    /\ pc' = "returned"
    /\ UNCHANGED <<build, frame, parser, hist, thr>>

NextGen == GenerateSchema \/ SchemaParseGenerated \/ DecodeCluster \/ ValidateDecoded

SpecGen == Init /\ [][NextGen]_vars

\* ------------------------------------------------------------------------
\* Calls in sequence: cfgpp_parse_string some times on one parser handle
\* ------------------------------------------------------------------------

\* the state after cfgpp_parse_string returned r
ParseNextReturns(text, r) ==
    /\ parser' = r.parser
    /\ hist' = Append(hist, Past("parse_string", text, r.rc))
    /\ call' = CallRecord("parse_string", <<"text", text>>, text, <<>>, 0, <<>>, 0,
                          r.rc, r.result, 0)

\* cfgpp_parse_string(parser, config_text, text_length, &result) on the
\* parser as the calls before left it
ParseNext ==
    /\ pc = "idle"
    /\ Len(hist) < MaxCalls
    /\ \E text \in SeqTexts :
         ParseNextReturns(text, cfgpp_parse_string(parser, text, build.dollar_eol))
    /\ UNCHANGED <<build, frame, pc, schema, thr>>

NextSeq == ParseNext

SpecSeq == Init /\ [][NextSeq]_vars

\* ------------------------------------------------------------------------
\* Two cfgpp_parse_string calls at once on one parser handle.  A thread
\* takes the statements of cfgpp_parse_string one at a time; parse_value
\* is taken as one step.
\* ------------------------------------------------------------------------

\* a call in progress: where it is, its text, and what it returned
Thread(at, text, rc, result) ==
    [at |-> at, text |-> text, rc |-> rc, result |-> result]

\* both threads enter cfgpp_parse_string
CallsBegin ==
    /\ pc = "idle"
    /\ thr = NoThreads
    /\ \E texts \in [Threads -> ConcTexts] :
         thr' = [t \in Threads |-> Thread("tokenize", texts[t], "", Unset)]
    /\ UNCHANGED <<build, frame, parser, pc, call, schema, hist>>

\* parser->tokens = parser->tokenize(text), with t what tokenize returned
TokensAssigned(t) ==
    [(IF t.ok THEN parser ELSE RecordLexError(parser, t)) EXCEPT !.tokens = t.tokens]

\* parser->tokens = parser->tokenize(text);
AssignTokens(t) ==
    /\ thr # NoThreads
    /\ thr[t].at = "tokenize"
    /\ parser' = TokensAssigned(tokenize(thr[t].text, build.dollar_eol))
    /\ thr' = [thr EXCEPT ![t].at = "check"]
    /\ UNCHANGED <<build, frame, pc, call, schema, hist>>

\* if (parser->tokens.empty()) return CFGPP_ERROR_INVALID_SYNTAX;
CheckEmpty(t) ==
    /\ thr # NoThreads
    /\ thr[t].at = "check"
    /\ thr' = IF parser.tokens = <<>>
              THEN [thr EXCEPT ![t].at = "done", ![t].rc = "CFGPP_ERROR_INVALID_SYNTAX"]
              ELSE [thr EXCEPT ![t].at = "reset"]
    /\ UNCHANGED <<build, frame, parser, pc, call, schema, hist>>

\* parser->current_token_pos = 0;
ResetCursor(t) ==
    /\ thr # NoThreads
    /\ thr[t].at = "reset"
    /\ parser' = [parser EXCEPT !.current_token_pos = 0]
    /\ thr' = [thr EXCEPT ![t].at = "parse"]
    /\ UNCHANGED <<build, frame, pc, call, schema, hist>>

\* the state after the thread's parse_value returned r
ParseValueReturns(t, r) ==
    /\ parser' = r.parser
    /\ thr' = [thr EXCEPT ![t].at = "done", ![t].rc = r.rc, ![t].result = r.result]

\* auto value = parser->parse_value(); and the return after it
ParseValue(t) ==
    /\ thr # NoThreads
    /\ thr[t].at = "parse"
    /\ ParseValueReturns(t, AfterParse(parser,
                                       parse_value(parser.tokens,
                                                   parser.current_token_pos,
                                                   parser.last_error)))
    /\ UNCHANGED <<build, frame, pc, call, schema, hist>>

NextConc ==
    \/ CallsBegin
    \/ \E t \in Threads : AssignTokens(t)
    \/ \E t \in Threads : CheckEmpty(t)
    \/ \E t \in Threads : ResetCursor(t)
    \/ \E t \in Threads : ParseValue(t)

SpecConc == Init /\ [][NextConc]_vars

\* ------------------------------------------------------------------------
\* The loops of tokenize, parse_object, parse_array and
\* cfgpp_from_labview_cluster, one round to a step.  frame holds the local
\* variables of the loop; a round either goes on (pc stays "running") or
\* leaves the function (pc becomes "returned").
\* ------------------------------------------------------------------------

\* pos += match.length()
AdvancePos(pos, n) == pos + n

\* a cluster loop that leaves offset where it is
NextOffset_Stay(offset, hsize) == offset

\* offset += sizeof(LabViewDataHeader); ...; offset += header->data_size
NextOffset(offset, hsize) == offset + HeaderSize + hsize

\* tokenize enters its outer loop
TokenizeBegins ==
    /\ pc = "idle"
    /\ \E text \in LoopTexts :
         frame' = [op |-> "tokenize", text |-> text, pos |-> 0, line |-> 1,
                   column |-> 1, result |-> <<>>, ok |-> TRUE]
    /\ pc' = "running"
    /\ UNCHANGED <<build, parser, call, schema, hist, thr>>

\* the round ends with the loop going on, or with the function returning
GoesOn(f) == [frame |-> f, pc |-> "running"]
Returns(f) == [frame |-> f, pc |-> "returned"]

\* one round of tokenize's outer loop after its whitespace loop left s and
\* the pattern loop found pattern i (0: none) with a match of length n
TokenizeStep(f, s, i, n) ==
    IF s.pos >= Len(f.text)
    THEN Returns([f EXCEPT !.pos = s.pos, !.line = s.line, !.column = s.column,
                           !.result = Append(f.result,
                                             Token("END_OF_FILE", <<>>, s.line, s.column))])
    ELSE IF i = 0
    THEN Returns([f EXCEPT !.pos = s.pos, !.line = s.line, !.column = s.column,
                           !.result = <<>>, !.ok = FALSE])
    ELSE GoesOn([f EXCEPT !.pos = AdvancePos(s.pos, n), !.line = s.line,
                          !.column = AdvanceColumn(s.column, n),
                          !.result = Emit(f.result, i, f.text, s.pos, n, s.line, s.column)])

\* the pattern loop of a round, the whitespace loop having left s
TokenizeMatch(f, s, i, dollar_eol) ==
    TokenizeStep(f, s, i, IF i = 0 THEN 0 ELSE patterns(i, f.text, s.pos, dollar_eol))

\* the whitespace loop of a round has left s
TokenizeSpace(f, s, dollar_eol) ==
    TokenizeMatch(f, s, IF s.pos >= Len(f.text) THEN 0
                        ELSE FirstMatch(1, f.text, s.pos, dollar_eol), dollar_eol)

\* one round of the outer while loop of tokenize
TokenizeRound ==
    /\ pc = "running"
    /\ frame.op = "tokenize"
    /\ \E nx \in {TokenizeSpace(frame, SkipSpace(frame.text, frame.pos, frame.line,
                                                 frame.column), build.dollar_eol)} :
         frame' = nx.frame /\ pc' = nx.pc
    /\ UNCHANGED <<build, parser, call, schema, hist, thr>>

\* the frame of a parse loop
ParseFrame(op, tokens, pos, acc) ==
    [op |-> op, tokens |-> tokens, pos |-> pos, acc |-> acc, v |-> Unset, le |-> <<>>]

\* parse_value at token 0 enters parse_object or parse_array, which comes
\* to its loop
ParseEnters(tokens) ==
    IF IsObjectName(tokens, 0) \/ Tok(tokens, 0).value = <<"{">>
    THEN /\ Tok(tokens, SkipObjectName(tokens, 0)).value = <<"{">>
         /\ frame' = ParseFrame("parse_object", tokens, SkipObjectName(tokens, 0) + 1, EmptyMap)
    ELSE /\ Tok(tokens, 0).value = <<"[">>
         /\ frame' = ParseFrame("parse_array", tokens, 1, <<>>)

\* parse_object or parse_array enters its loop
ParseBegins ==
    /\ pc = "idle"
    /\ \E text \in LoopTexts :
         /\ tokenize(text, build.dollar_eol).ok
         /\ ParseEnters(tokenize(text, build.dollar_eol).tokens)
    /\ pc' = "running"
    /\ UNCHANGED <<build, parser, call, schema, hist, thr>>

\* the function returns r
ParseLeaves(f, r) ==
    Returns([f EXCEPT !.pos = r.pos, !.v = r.v, !.le = r.last_error])

\* the round of parse_object goes on after parse_value returned r for key
ObjectRoundField(f, key, r) ==
    IF ~IsValue(r.v) THEN ParseLeaves(f, r)
    ELSE GoesOn([f EXCEPT !.pos = SkipSemicolon(f.tokens, r.pos),
                          !.acc = MapSet(f.acc, key, r.v), !.le = r.last_error])

\* one round of the while loop of parse_object, or what follows the loop
ObjectLoopStep(f) ==
    IF f.pos < Len(f.tokens) /\ Tok(f.tokens, f.pos).value # <<"}">>
    THEN IF Tok(f.tokens, f.pos).type # "IDENTIFIER"
         THEN ParseLeaves(f, PRes(NullPtr, f.pos, <<"Expected identifier for object key">>))
         ELSE IF f.pos + 1 >= Len(f.tokens) \/ Tok(f.tokens, f.pos + 1).value # <<"=">>
         THEN ParseLeaves(f, PRes(NullPtr, f.pos + 1, <<"Expected '=' after object key">>))
         ELSE ObjectRoundField(f, Tok(f.tokens, f.pos).value,
                               parse_value(f.tokens, f.pos + 2, f.le))
    ELSE IF f.pos >= Len(f.tokens) \/ Tok(f.tokens, f.pos).value # <<"}">>
         THEN ParseLeaves(f, PRes(NullPtr, f.pos, <<"Expected '}'">>))
         ELSE ParseLeaves(f, PRes(MkObject(f.acc), f.pos + 1, f.le))

ObjectRound ==
    /\ pc = "running"
    /\ frame.op = "parse_object"
    /\ \E nx \in {ObjectLoopStep(frame)} : frame' = nx.frame /\ pc' = nx.pc
    /\ UNCHANGED <<build, parser, call, schema, hist, thr>>

\* the round of parse_array goes on after parse_value returned r
ArrayRoundElem(f, r) ==
    IF ~IsValue(r.v) THEN ParseLeaves(f, r)
    ELSE GoesOn([f EXCEPT !.pos = SkipComma(f.tokens, r.pos),
                          !.acc = Append(f.acc, r.v), !.le = r.last_error])

\* one round of the while loop of parse_array, or what follows the loop
ArrayLoopStep(f) ==
    IF f.pos < Len(f.tokens) /\ Tok(f.tokens, f.pos).value # <<"]">>
    THEN ArrayRoundElem(f, parse_value(f.tokens, f.pos, f.le))
    ELSE IF f.pos >= Len(f.tokens) \/ Tok(f.tokens, f.pos).value # <<"]">>
         THEN ParseLeaves(f, PRes(NullPtr, f.pos, <<"Expected ']'">>))
         ELSE ParseLeaves(f, PRes(MkArray(f.acc), f.pos + 1, f.le))

ArrayRound ==
    /\ pc = "running"
    /\ frame.op = "parse_array"
    /\ \E nx \in {ArrayLoopStep(frame)} : frame' = nx.frame /\ pc' = nx.pc
    /\ UNCHANGED <<build, parser, call, schema, hist, thr>>

\* cfgpp_from_labview_cluster enters its loop
ClusterBegins ==
    /\ pc = "idle"
    /\ \E inp \in LoopClusters :
         /\ inp.field_count # 0
         /\ frame' = [op |-> "cluster", mem |-> ClusterBuffer(inp),
                      data_size |-> Len(ClusterBuffer(inp)),
                      field_names |-> NamesOf(inp), field_count |-> inp.field_count,
                      i |-> 0, offset |-> 0, map |-> EmptyMap, rc |-> ""]
    /\ pc' = "running"
    /\ UNCHANGED <<build, parser, call, schema, hist, thr>>

\* the round of the cluster loop after the field's decode returned r, the
\* header's data_size being hsize
ClusterRoundField(f, hsize, r) ==
    IF r.rc = Crash
    THEN Returns([f EXCEPT !.rc = Crash])
    ELSE GoesOn([f EXCEPT !.i = f.i + 1, !.offset = NextOffset(f.offset, hsize),
                          !.map = StoreField(f.map, f.field_names[f.i + 1], r)])

\* the round of the cluster loop for the header at offset
ClusterRoundHeader(f, hsize, case10) ==
    ClusterRoundField(f, hsize,
                      cfgpp_from_labview_variant(f.mem, f.offset, hsize + HeaderSize,
                                                 case10))

\* one round of the for loop of cfgpp_from_labview_cluster, or the return
\* after it
ClusterLoopStep(f, case10) ==
    IF /\ f.i < f.field_count
       /\ f.offset < f.data_size
       /\ ClusterHeaderFits(f.offset, f.data_size)
    THEN ClusterRoundHeader(f, WordAt(f.mem, f.offset + DataSizeOffset), case10)
    ELSE Returns([f EXCEPT !.rc = "CFGPP_SUCCESS"])

ClusterRound ==
    /\ pc = "running"
    /\ frame.op = "cluster"
    /\ \E nx \in {ClusterLoopStep(frame, build.case10)} : frame' = nx.frame /\ pc' = nx.pc
    /\ UNCHANGED <<build, parser, call, schema, hist, thr>>

\* a round of the loop in progress
Round == TokenizeRound \/ ObjectRound \/ ArrayRound \/ ClusterRound

NextLoops ==
    \/ TokenizeBegins
    \/ ParseBegins
    \/ ClusterBegins
    \/ TokenizeRound
    \/ ObjectRound
    \/ ArrayRound
    \/ ClusterRound

SpecLoops == Init /\ [][NextLoops]_vars

\* the function in progress keeps running: it is not suspended for ever
SpecLoopsFair == SpecLoops /\ WF_vars(Round)

\* ------------------------------------------------------------------------
\* Properties
\* ------------------------------------------------------------------------

Returned(op) == pc = "returned" /\ call.op = op

\* the index of the last field of fields whose key is k
LastField(fields, k) ==
    CHOOSE i \in 1..Len(fields) :
        /\ fields[i].key = k
        /\ \A j \in (i + 1)..Len(fields) : fields[j].key # k

\* the field map the grammar gives a sequence of fields
FieldTrees(fields) ==
    [k \in {fields[i].key : i \in 1..Len(fields)} |->
        Shapes[fields[LastField(fields, k)].shape].tree]

\* C1: for every document [name] '{' (IDENTIFIER '=' value [';'])* '}' the
\* parse succeeds with an Object whose keys are exactly the field
\* identifiers, each mapped to the parsed value of its last occurrence,
\* whatever fields are followed by ';'.
C1_ObjectFields ==
    (Returned("parse_string") /\ call.input[1] = "doc") =>
        /\ call.rc = "CFGPP_SUCCESS"
        /\ call.result = MkObject(FieldTrees(call.input[3]))

\* a named document whose key a occurs twice, first with ';' and then
\* without, parsed to the second value
C1_Witness ==
    /\ Returned("parse_string") /\ call.input[1] = "doc"
    /\ call.input[2]
    /\ Len(call.input[3]) = 2
    /\ call.input[3][1] = [key |-> <<"a">>, shape |-> 1, semi |-> TRUE]
    /\ call.input[3][2] = [key |-> <<"a">>, shape |-> 2, semi |-> FALSE]
    /\ call.result = MkObject(MapSet(EmptyMap, <<"a">>, MkString(<<"x">>)))

\* the text of the first token contains '.', 'e' or 'E'
HasDotOrExp(v) ==
    \E i \in 1..Len(v) : v[i] = "." \/ v[i] = "e" \/ v[i] = "E"

FirstTokenIs(type) ==
    /\ Returned("parse_string")
    /\ parser.tokens # <<>>
    /\ parser.tokens[1].type = type

\* C2: when the value parsed starts at a NUMBER token, exactly that token
\* is consumed, and the value yielded is a Double if the token's text
\* contains '.', 'e' or 'E' and an Integer if it does not.
C2_NumberKind ==
    FirstTokenIs("NUMBER") =>
        /\ parser.current_token_pos = 1
        /\ call.result # Unset =>
             call.result[1] = (IF HasDotOrExp(parser.tokens[1].value)
                               THEN "DOUBLE" ELSE "INTEGER")

\* 1e1 parsed to a Double with a token left behind it
C2_Witness ==
    /\ FirstTokenIs("NUMBER")
    /\ parser.tokens[1].value = <<"1", "e", "1">>
    /\ Len(parser.tokens) = 3
    /\ call.rc = "CFGPP_SUCCESS"
    /\ call.result[1] = "DOUBLE"
    /\ parser.current_token_pos = 1

\* C3: when the value parsed starts at an IDENTIFIER token followed by
\* '{', the identifier is skipped and the outcome is that of parsing the
\* tokens after it; otherwise the identifier alone is consumed and the
\* value is an Enum holding its text.
C3_Identifier ==
    FirstTokenIs("IDENTIFIER") =>
        IF Len(parser.tokens) >= 2 /\ parser.tokens[2].value = <<"{">>
        THEN LET r == parse_value(Tail(parser.tokens), 0, <<>>)
             IN  /\ parser.current_token_pos = r.pos + 1
                 /\ call.rc = ParseReturnCode(r.v)
                 /\ call.result = (IF IsValue(r.v) THEN r.v ELSE Unset)
        ELSE /\ parser.current_token_pos = 1
             /\ call.rc = "CFGPP_SUCCESS"
             /\ call.result = MkEnum(parser.tokens[1].value)

\* cfg { a = 1 } parsed to the Object of { a = 1 }
C3_WitnessObject ==
    /\ FirstTokenIs("IDENTIFIER")
    /\ parser.tokens[1].value = <<"c", "f", "g">>
    /\ parser.tokens[2].value = <<"{">>
    /\ call.result = MkObject(MapSet(EmptyMap, <<"a">>, MkInteger(I64(1))))
    /\ parser.current_token_pos = Len(parser.tokens) - 1

\* MULTIMETER parsed to an Enum
C3_WitnessEnum ==
    /\ FirstTokenIs("IDENTIFIER")
    /\ call.result = MkEnum(<<"M", "U", "L", "T", "I", "M", "E", "T", "E", "R">>)
    /\ parser.current_token_pos = 1

\* both cases of C3 are reached: the witness is the object case, the enum
\* case is C3_WitnessEnum
C3_Witness == C3_WitnessObject

\* the trees of a list of elements, in source order
ElemTrees(elems) == [i \in 1..Len(elems) |-> Shapes[elems[i].shape].tree]

\* an element that is a bare identifier is directly followed, without a
\* comma, by an element that begins with '{'
NameBeforeBrace(elems) ==
    \E i \in 1..(Len(elems) - 1) :
        /\ Len(Shapes[elems[i].shape].lex) = 1
        /\ Tok(tokenize(Shapes[elems[i].shape].lex[1], FALSE).tokens, 0).type
             = "IDENTIFIER"
        /\ ~elems[i].comma
        /\ Shapes[elems[i + 1].shape].lex[1] = <<"{">>

\* C4 as stated: every list '[' (value [','])* ']' of n values parses to
\* the Array of the n parsed values in source order.
C4_AsStated ==
    (Returned("parse_string") /\ call.input[1] = "arr") =>
        /\ call.rc = "CFGPP_SUCCESS"
        /\ call.result = MkArray(ElemTrees(call.input[2]))

\* C4: a list '[' (value [','])* ']' of n values parses to the Array of
\* the n parsed values in source order, provided no bare identifier is
\* directly followed, without a comma, by a value that begins with '{'.
C4_ArrayElems ==
    (Returned("parse_string") /\ call.input[1] = "arr"
        /\ ~NameBeforeBrace(call.input[2])) =>
        /\ call.rc = "CFGPP_SUCCESS"
        /\ call.result = MkArray(ElemTrees(call.input[2]))

\* [ 1 , "x" ] and its two elements
C4_Witness ==
    /\ Returned("parse_string") /\ call.input[1] = "arr"
    /\ call.input[2] = << [shape |-> 1, comma |-> TRUE],
                          [shape |-> 2, comma |-> FALSE] >>
    /\ call.result = MkArray(<<MkInteger(I64(1)), MkString(<<"x">>)>>)

\* the 1-based line of the character at offset pos of text
LineOf(text, pos) ==
    1 + Cardinality({i \in 1..pos : text[i] = "\n"})

\* the 1-based column of the character at offset pos of text
ColumnOf(text, pos) ==
    pos + 1 - (IF \E i \in 1..pos : text[i] = "\n"
               THEN CHOOSE i \in 1..pos :
                        text[i] = "\n" /\ \A j \in (i + 1)..pos : text[j] # "\n"
               ELSE 0)

\* the call was cfgpp_parse_string on a text the lexer rejects (the
\* documents and lists are made of lexemes: only a free text can be one)
LexError ==
    /\ Returned("parse_string")
    /\ call.input[1] = "text"
    /\ ~tokenize(call.text, build.dollar_eol).ok

\* C5 as stated: when tokenize meets a character no pattern matches, the
\* last_error_line and last_error_column it records are the 1-based line
\* and column of that character in the text.
C5_AsStated ==
    LexError =>
        LET pos == tokenize(call.text, build.dollar_eol).pos
        IN  /\ parser.last_error_line = LineOf(call.text, pos)
            /\ parser.last_error_column = ColumnOf(call.text, pos)

\* a string literal spanning a newline, then '%': the '%' is at line 2,
\* column 2, and line 1, column 4 is recorded
C5_Diverges ==
    /\ LexError
    /\ call.text = <<"\"", "\n", "\"", "%">>
    /\ parser.last_error_line = 1 /\ parser.last_error_column = 4
    /\ LineOf(call.text, 3) = 2 /\ ColumnOf(call.text, 3) = 2

\* the texts whose first value holds a literal out of the range of its type
ConversionFails ==
    /\ Returned("parse_string")
    /\ call.input[1] = "text"
    /\ call.text \in { TwentyNines,
                       <<"1", "e", "9", "9", "9">>,
                       <<"[", "1", " ">> \o TwentyNines \o <<"]">>,
                       <<"{", "a", "=", "1", "e", "9", "9", "9", "}">> }

\* C6: a cfgpp_parse_string that does not return CFGPP_SUCCESS leaves
\* *result unwritten; a lexing error and a numeric conversion failure do
\* not return CFGPP_SUCCESS, and after a lexing error the parser's token
\* sequence is empty.
C6_NoPartialResult ==
    Returned("parse_string") =>
        /\ call.rc # "CFGPP_SUCCESS" => call.result = Unset
        /\ call.rc = "CFGPP_SUCCESS" => IsValue(call.result) /\ call.result # Unset
        /\ LexError => call.rc # "CFGPP_SUCCESS" /\ parser.tokens = <<>>
        /\ ConversionFails => call.rc # "CFGPP_SUCCESS"

\* a { a % : three tokens lexed before the '%', none kept, nothing written
C6_Witness ==
    /\ LexError
    /\ call.text = <<"a", "{", "a", "%">>
    /\ parser.tokens = <<>>
    /\ call.rc = "CFGPP_ERROR_INVALID_SYNTAX"
    /\ call.result = Unset

\* an array whose second element is out of range: no Array of the first
C6_WitnessThrown ==
    /\ ConversionFails
    /\ call.text = <<"[", "1", " ">> \o TwentyNines \o <<"]">>
    /\ call.rc = "CFGPP_ERROR_MEMORY_ERROR"
    /\ call.result = Unset

\* the record of a cfgpp_from_labview_variant call, whole
WholeRecord ==
    /\ Returned("from_labview_variant")
    /\ call.input.cut = 0

\* C7 as stated: a buffer whose type_code is LABVIEW_TYPE_DBL with an
\* 8-byte payload decodes to the Double of the payload, and the type code
\* of a record decoded has one case of the switch at most.
C7_AsStated ==
    WholeRecord =>
        /\ Cardinality(CaseLabels(Records[call.input.rec].tc)) <= 1
        /\ Records[call.input.rec].tc = LABVIEW_TYPE_DBL =>
               /\ call.rc = "CFGPP_SUCCESS"
               /\ call.result = MkDouble(<<"f64", Records[call.input.rec].pl>>)

\* the DBL record of 3.14159 decoded to an Integer
C7_Diverges ==
    /\ WholeRecord
    /\ Records[call.input.rec].tc = LABVIEW_TYPE_DBL
    /\ call.rc = "CFGPP_SUCCESS"
    /\ call.result = MkInteger(Records[call.input.rec].pl)

\* the records that are well formed and of a type the decoder supports
Supported ==
    {i \in 1..Len(Records) :
        /\ CaseLabels(Records[i].tc) # {}
        /\ Records[i].ds = Len(Records[i].pl)
        /\ Len(Records[i].pl) >= FixedRead(CHOOSE l \in CaseLabels(Records[i].tc) : TRUE)
        /\ Records[i].tc = LABVIEW_TYPE_STRING =>
               4 + WordAt(Records[i].pl, 0) <= Len(Records[i].pl)}

\* the call decoded a whole buffer of records, no header before them,
\* with one field name per record
WholeCluster ==
    /\ Returned("from_labview_cluster")
    /\ ~call.input.outer
    /\ call.input.cut = 0
    /\ call.field_count = Len(call.input.recs)

\* the scalar decode of record i of the call's buffer taken alone
ScalarDecode(i) ==
    cfgpp_from_labview_variant(RecordBytes(Records[call.input.recs[i]]), 0,
                               Len(RecordBytes(Records[call.input.recs[i]])),
                               build.case10)

\* C8: a buffer of n well-formed records of supported types with n
\* distinct field names decodes to an Object of exactly n fields in which
\* field_names[i] maps to the scalar decoded from record i.
C8_ClusterFields ==
    (WholeCluster /\ \A i \in 1..Len(call.input.recs) : call.input.recs[i] \in Supported) =>
        /\ call.rc = "CFGPP_SUCCESS"
        /\ call.result[1] = "OBJECT"
        /\ DOMAIN call.result[2] = {call.field_names[i] : i \in 1..call.field_count}
        /\ Cardinality(DOMAIN call.result[2]) = call.field_count
        /\ \A i \in 1..call.field_count :
               /\ ScalarDecode(i).rc = "CFGPP_SUCCESS"
               /\ call.result[2][call.field_names[i]] = ScalarDecode(i).value

\* I32(1000), BOOLEAN(1) named rate, enabled
C8_Witness ==
    /\ WholeCluster
    /\ call.input.recs = <<1, 2>>
    /\ call.result =
         MkObject(MapSet(MapSet(EmptyMap, <<"r", "a", "t", "e">>,
                                MkInteger(<<232, 3, 0, 0, 0, 0, 0, 0>>)),
                         <<"e", "n", "a", "b", "l", "e", "d">>, MkBoolean(TRUE)))

\* C9 as stated: when the scalar decode of one record of the cluster
\* fails, cfgpp_from_labview_cluster returns an error and no Object.
C9_AsStated ==
    (WholeCluster /\ \E i \in 1..call.field_count :
                         ScalarDecode(i).rc = "CFGPP_ERROR_INVALID_PARAMETER") =>
        /\ call.rc # "CFGPP_SUCCESS"
        /\ call.result = Unset

\* I32(1000), VOID: success, and an Object without the second field
C9_Diverges ==
    /\ WholeCluster
    /\ call.input.recs = <<1, 5>>
    /\ call.rc = "CFGPP_SUCCESS"
    /\ call.result = MkObject(MapSet(EmptyMap, <<"r", "a", "t", "e">>,
                                     MkInteger(<<232, 3, 0, 0, 0, 0, 0, 0>>)))

Decoded ==
    Returned("from_labview_variant") \/ Returned("from_labview_cluster")

\* C10 as stated: the decoder reads no byte at or beyond data_size, and a
\* buffer cut short of its record yields an error and no value.
C10_AsStated ==
    Decoded =>
        /\ call.extent <= call.data_size
        /\ call.rc # Crash
        /\ (call.input.cut > 0 /\ call.op = "from_labview_variant"
              /\ call.input.rec \in Supported) =>
               call.rc # "CFGPP_SUCCESS" /\ call.result = Unset

\* a BOOLEAN record cut to its 16-byte header: the byte behind the buffer
\* is read and returned as the value
C10_Diverges ==
    /\ Returned("from_labview_variant")
    /\ Records[call.input.rec].tc = LABVIEW_TYPE_BOOLEAN
    /\ call.data_size = HeaderSize
    /\ call.extent = HeaderSize + 1
    /\ call.rc = "CFGPP_SUCCESS"
    /\ call.result = MkBoolean(call.mem[HeaderSize + 1] # 0)

\* a cluster whose second header lies behind the mapped memory
C10_DivergesCrash ==
    /\ Returned("from_labview_cluster")
    /\ call.rc = Crash
    /\ call.extent > call.data_size

\* the schema handle parsed exactly the texts given, in order
Parsed(texts) ==
    /\ Len(hist) = Len(texts)
    /\ \A i \in 1..Len(texts) :
           hist[i].op = "schema_parse_string" /\ hist[i].text = texts[i]

\* the violations a validation reported that name field_name
Naming(errors, field_name) ==
    {i \in 1..Len(errors) : errors[i][2] = field_name}

\* C11 as stated: after cfgpp_schema_parse_string on `Cfg {x: integer}`,
\* cfgpp_validate_value reports no violation for {x: Integer(5)} and
\* exactly one, naming field x, for {x: String("s")}.
C11_AsStated ==
    (Returned("validate_value") /\ Parsed(<<SchemaOneLine>>)) =>
        /\ call.input.value = MkObject(MapSet(EmptyMap, <<"x">>, MkInteger(I64(5)))) =>
               call.result.errors = <<>>
        /\ call.input.value = MkObject(MapSet(EmptyMap, <<"x">>, MkString(<<"s">>))) =>
               /\ Len(call.result.errors) = 1
               /\ Naming(call.result.errors, <<"x">>) = {1}

\* {x: Integer(5)} against `Cfg {x: integer}`: one violation, a missing
\* field named "Cfg {x"
C11_Diverges ==
    /\ Returned("validate_value") /\ Parsed(<<SchemaOneLine>>)
    /\ call.input.value = MkObject(MapSet(EmptyMap, <<"x">>, MkInteger(I64(5))))
    /\ call.input.buffer_size = 256
    /\ call.rc = "CFGPP_ERROR_INVALID_SYNTAX"
    /\ call.result.errors = <<MissingField(<<"C", "f", "g", " ", "{", "x">>)>>

\* the same schema with a line to each field behaves as C11 says
C11_LinesAgree ==
    (Returned("validate_value") /\ Parsed(<<SchemaLines>>)) =>
        /\ call.input.value = MkObject(MapSet(EmptyMap, <<"x">>, MkInteger(I64(5)))) =>
               call.result.errors = <<>>
        /\ call.input.value = MkObject(MapSet(EmptyMap, <<"x">>, MkString(<<"s">>))) =>
               call.result.errors =
                   <<WrongType(<<"x">>, <<"i", "n", "t", "e", "g", "e", "r">>)>>

\* the variant a built-in type name stands for ("" for any other name)
SameNamed(expected_type) ==
    CASE expected_type = <<"s", "t", "r", "i", "n", "g">> -> "STRING"
      [] expected_type = <<"i", "n", "t", "e", "g", "e", "r">> -> "INTEGER"
      [] expected_type = <<"d", "o", "u", "b", "l", "e">> -> "DOUBLE"
      [] expected_type = <<"b", "o", "o", "l", "e", "a", "n">> -> "BOOLEAN"
      [] expected_type = <<"a", "r", "r", "a", "y">> -> "ARRAY"
      [] expected_type = <<"o", "b", "j", "e", "c", "t">> -> "OBJECT"
      [] OTHER -> ""

\* C12: validate_type is true exactly when the expected name is a
\* built-in name and the value's variant is the same-named one; every
\* enum a schema declares has no members, and for a declared enum name
\* and for any other name validate_type is false for every value.
C12_ValidateType ==
    /\ \A name \in DOMAIN schema.enum_definitions :
           schema.enum_definitions[name] = <<>>
    /\ Returned("validate_type") =>
           call.result[1] = (call.input.value[1] = SameNamed(call.input.expected_type))

\* Color is a declared enum, and Enum(RED) is not of it
C12_Witness ==
    /\ Returned("validate_type")
    /\ <<"C", "o", "l", "o", "r">> \in DOMAIN schema.enum_definitions
    /\ call.input.expected_type = <<"C", "o", "l", "o", "r">>
    /\ call.input.value = MkEnum(<<"R", "E", "D">>)
    /\ call.result[1] = FALSE

\* Integer(5) is an integer
C12_WitnessBuiltin ==
    /\ Returned("validate_type")
    /\ call.input.expected_type = <<"i", "n", "t", "e", "g", "e", "r">>
    /\ call.input.value = MkInteger(I64(5))
    /\ call.result[1] = TRUE

\* the object schemas a text defines when parsed into a fresh schema
Defines(text) == cfgpp_schema_parse_string(NewSchema, text).schema.object_schemas

\* C13 as stated: after cfgpp_schema_parse_string(A) and then (B) on one
\* handle, an object schema X that both texts define has exactly the
\* field map B defines.
C13_AsStated ==
    (pc = "idle" /\ Len(hist) = 2 /\ hist[1].text # NullPtr /\ hist[2].text # NullPtr) =>
        \A X \in DOMAIN Defines(hist[1].text) \cap DOMAIN Defines(hist[2].text) :
            schema.object_schemas[X] = Defines(hist[2].text)[X]

\* Cfg {x, y} and then Cfg {x}: Cfg still has the field y
C13_Diverges ==
    /\ pc = "idle"
    /\ Parsed(<<SchemaTwoFields, SchemaLines>>)
    /\ DOMAIN Defines(SchemaLines)[<<"C", "f", "g">>] = {<<"x">>}
    /\ DOMAIN schema.object_schemas[<<"C", "f", "g">>] = {<<"x">>, <<"y">>}


\* what cfgpp_parse_string gives for the text on a parser no other call uses
Alone(text) == cfgpp_parse_string(NewParser, text, build.dollar_eol)

\* C14, as stated: when two cfgpp_parse_string calls run at once on one
\* parser handle, each call returns the code and the value tree it returns
\* when run alone, and a call that is about to parse has its cursor inside
\* the token vector.
C14_AsStated ==
    thr # NoThreads =>
      \A t \in Threads :
        /\ thr[t].at = "done" =>
             /\ thr[t].rc = Alone(thr[t].text).rc
             /\ thr[t].result = Alone(thr[t].text).result
        /\ thr[t].at = "parse" => parser.current_token_pos < Len(parser.tokens)

\* thread 1 parsed the text 1 and returned the String of thread 2's text "x"
C14_Diverges ==
    /\ thr # NoThreads
    /\ thr[1].at = "done"
    /\ thr[1].text = <<"1">>
    /\ thr[2].text = <<"\"", "x", "\"">>
    /\ thr[1].rc = "CFGPP_SUCCESS"
    /\ thr[1].result = MkString(<<"x">>)

\* a thread is about to parse and the other call has emptied the token vector
C14_DivergesCursor ==
    /\ thr # NoThreads
    /\ \E t \in Threads : thr[t].at = "parse" /\ parser.tokens = <<>>

\* the field of an Object value under a key, NullPtr where there is none
FieldOf(value, key) ==
    IF value # NullPtr /\ value # Unset /\ value[1] = "OBJECT" /\ key \in DOMAIN value[2]
    THEN value[2][key]
    ELSE NullPtr

\* C15, as stated: a document of top-level named blocks parses to a root
\* Object holding each block under its name, so that
\* root["measurement_config"]["sample_rate"] is Integer(1000).
C15_AsStated ==
    (Returned("parse_string") /\ call.input[1] = "text" /\ call.text \in ExampleTexts) =>
        /\ call.rc = "CFGPP_SUCCESS"
        /\ FieldOf(FieldOf(call.result, <<"m", "e", "a", "s", "u", "r", "e", "m", "e", "n", "t", "_",
             "c", "o", "n", "f", "i", "g">>), <<"s", "a", "m", "p", "l", "e", "_", "r", "a", "t", "e">>) = MkInteger(stoll(<<"1", "0", "0", "0">>))

\* the two-block document parsed to the fields of its first block alone: no
\* key measurement_config, no key instruments
C15_Diverges ==
    /\ Returned("parse_string")
    /\ call.text = ExampleBlocks
    /\ call.rc = "CFGPP_SUCCESS"
    /\ call.result = MkObject(MapSet(EmptyMap, <<"s", "a", "m", "p", "l", "e", "_", "r", "a", "t", "e">>, MkInteger(stoll(<<"1", "0", "0", "0">>))))

\* the example configuration is rejected
C15_DivergesExample ==
    /\ Returned("parse_string")
    /\ call.text = ExampleConfig
    /\ call.rc = "CFGPP_ERROR_INVALID_SYNTAX"
    /\ call.result = Unset

\* the nested named block is rejected where '=' is expected after its name
C15_DivergesNested ==
    /\ Returned("parse_string")
    /\ call.text = ExampleNested
    /\ call.rc = "CFGPP_ERROR_INVALID_SYNTAX"
    /\ parser.last_error = <<"Expected '=' after object key">>

\* C16, as stated: the example's buffer, an outer CLUSTER header followed
\* by the I32, DBL, BOOLEAN and STRING records, with its four field names,
\* decodes to an Object holding all four fields.
C16_AsStated ==
    (Returned("from_labview_cluster") /\ call.input.outer) =>
        /\ call.rc = "CFGPP_SUCCESS"
        /\ call.result[1] = "OBJECT"
        /\ \A i \in 1..4 : ExampleFieldNames[i] \in DOMAIN call.result[2]

\* the example's buffer decoded to an Object of no fields
C16_Diverges ==
    /\ Returned("from_labview_cluster")
    /\ call.input = ExampleCluster
    /\ call.data_size = HeaderSize + 96
    /\ call.field_names = ExampleFieldNames
    /\ call.rc = "CFGPP_SUCCESS"
    /\ call.result = MkObject(EmptyMap)

\* a token lies before another in (line, column) order
Before(a, b) == a.line < b.line \/ (a.line = b.line /\ a.column < b.column)

\* C18: in the token sequence of a successful tokenize the (line, column)
\* positions of consecutive tokens strictly increase, the END_OF_FILE
\* token, which ends the sequence, included.
C18_Positions ==
    (Returned("parse_string") /\ parser.tokens # <<>>) =>
        /\ parser.tokens[Len(parser.tokens)].type = "END_OF_FILE"
        /\ \A i \in 1..(Len(parser.tokens) - 1) :
               Before(parser.tokens[i], parser.tokens[i + 1])

\* tokens over two lines: a token at a smaller column on the next line, and
\* two tokens on one line
C18_Witness ==
    /\ Returned("parse_string")
    /\ call.text = ExampleBlocks
    /\ Len(parser.tokens) > 3
    /\ \E i \in 1..(Len(parser.tokens) - 1) :
           /\ parser.tokens[i + 1].line > parser.tokens[i].line
           /\ parser.tokens[i + 1].column < parser.tokens[i].column
    /\ \E i \in 1..(Len(parser.tokens) - 1) :
           /\ parser.tokens[i + 1].line = parser.tokens[i].line
           /\ parser.tokens[i + 1].column > parser.tokens[i].column

\* the first pattern, in the order of patterns[], that matches at pos
LeastPattern(text, pos) ==
    LET M == {i \in 1..Len(token_types) : patterns(i, text, pos, build.dollar_eol) > 0}
    IN  CHOOSE i \in M : \A j \in M : i <= j

\* the token is the match of pattern i at pos
TokenOf(tok, text, pos, i) ==
    /\ tok.type = token_types[i]
    /\ tok.value = Substr(text, pos, patterns(i, text, pos, build.dollar_eol))

\* the tokens of a word that begins with a keyword
KeywordTokens(w) ==
    << Token(w.kind, w.kw, 1, 1),
       Token("IDENTIFIER", w.rest, 1, 1 + Len(w.kw)),
       Token("END_OF_FILE", <<>>, 1, 1 + Len(w.kw) + Len(w.rest)) >>

\* C19: every token of the first line (its position is its column less
\* one) is the match of the first pattern, in the fixed order, that matches
\* at its position, whatever a later pattern would match there; a word that
\* begins with true, false, enum or null is lexed as the keyword and then
\* an identifier, and an object with such a word as its key is rejected.
C19_FirstPattern ==
    (Returned("parse_string") /\ call.input[1] = "text") =>
        /\ \A k \in 1..Len(parser.tokens) :
             (parser.tokens[k].line = 1 /\ parser.tokens[k].type # "END_OF_FILE") =>
                 TokenOf(parser.tokens[k], call.text, parser.tokens[k].column - 1,
                         LeastPattern(call.text, parser.tokens[k].column - 1))
        /\ \A w \in KeywordWords :
             /\ call.text = w.kw \o w.rest => parser.tokens = KeywordTokens(w)
             /\ call.text = KeyDoc(w) =>
                  /\ call.rc = "CFGPP_ERROR_INVALID_SYNTAX"
                  /\ call.result = Unset
                  /\ parser.last_error = <<"Expected identifier for object key">>

\* nullable lexed as the keyword null and the identifier able, where the
\* identifier pattern matches all of it
C19_Witness ==
    /\ Returned("parse_string")
    /\ call.text = <<"n", "u", "l", "l", "a", "b", "l", "e">>
    /\ MatchIdentifier(call.text, 0) = 8
    /\ Len(parser.tokens) = 3
    /\ parser.tokens[1].type = "NULL_KW"
    /\ parser.tokens[2].type = "IDENTIFIER"

\* the object with the key true_val is rejected
C19_WitnessKey ==
    /\ Returned("parse_string")
    /\ call.text = <<"{", " ", "t", "r", "u", "e", "_", "v", "a", "l", " ", "=", " ",
                     "1", " ", "}">>
    /\ call.rc = "CFGPP_ERROR_INVALID_SYNTAX"

\* the kinds and texts of a token sequence
KindsTexts(tokens) == [i \in DOMAIN tokens |-> <<tokens[i].type, tokens[i].value>>]

\* C20, as stated: a text with a // comment that is followed by further
\* lines gives the token kinds and texts of the text without the comment,
\* and no character of the comment comes out as an OPERATOR or IDENTIFIER
\* token.
C20_AsStated ==
    (Returned("parse_string") /\ call.input[1] = "text") =>
        \A p \in CommentPairs :
            call.text = p.text =>
                /\ KindsTexts(parser.tokens) =
                     KindsTexts(tokenize(p.without, build.dollar_eol).tokens)
                /\ \A k \in 1..Len(parser.tokens) :
                       ~(parser.tokens[k].type = "OPERATOR" /\ parser.tokens[k].value = <<"/">>)

\* where $ matches at the end of the text alone, //x before a second line
\* came out as the tokens /, /, x
C20_Diverges ==
    /\ Returned("parse_string")
    /\ ~build.dollar_eol
    /\ call.text = <<"/", "/", "x", "\n", "1">>
    /\ KindsTexts(parser.tokens) =
         << <<"OPERATOR", <<"/">> >>, <<"OPERATOR", <<"/">> >>, <<"IDENTIFIER", <<"x">> >>,
            <<"NUMBER", <<"1">> >>, <<"END_OF_FILE", <<>> >> >>

\* where $ matches before a line terminator the comment gives no token
C20_Agrees ==
    /\ Returned("parse_string")
    /\ build.dollar_eol
    /\ call.text = <<"/", "/", "x", "\n", "1">>
    /\ KindsTexts(parser.tokens) = << <<"NUMBER", <<"1">> >>, <<"END_OF_FILE", <<>> >> >>

\* C17: in any sequence of cfgpp_parse_string calls on one parser handle,
\* the return code and the value tree of each call are those the call's
\* text gives on a fresh parser, whatever was parsed before it, and the
\* tokens of the text are the same each time it is tokenized.
C17_HistoryIndependent ==
    (call.op = "parse_string" /\ hist # <<>>) =>
        /\ call.rc = Alone(call.text).rc
        /\ call.result = Alone(call.text).result
        /\ call.text # NullPtr => parser.tokens = Alone(call.text).parser.tokens

\* the third call on the handle, after a call that failed and a call that
\* parsed another text, parsed { a = 1 }
C17_Witness ==
    /\ call.op = "parse_string"
    /\ Len(hist) = 3
    /\ hist[1].rc = "CFGPP_ERROR_INVALID_SYNTAX"
    /\ hist[2].rc = "CFGPP_SUCCESS"
    /\ hist[2].text # call.text
    /\ call.text = <<"{", " ", "a", " ", "=", " ", "1", " ", "}">>
    /\ call.rc = "CFGPP_SUCCESS"
    /\ call.result = MkObject(MapSet(EmptyMap, <<"a">>, MkInteger(I64(1))))

\* the same text parsed twice in a row, a failed call before
C17_WitnessTwice ==
    /\ call.op = "parse_string"
    /\ Len(hist) = 3
    /\ hist[1].rc # "CFGPP_SUCCESS"
    /\ hist[2].text = call.text
    /\ call.rc = "CFGPP_SUCCESS"

\* C21, as stated: an object whose closing '}' is absent after a complete
\* field fails with last_error "Expected '}'", and an array whose closing
\* ']' is absent fails with last_error "Expected ']'".
C21_AsStated ==
    Returned("parse_string") =>
        /\ call.text = <<"{", " ", "a", " ", "=", " ", "1">> =>
             /\ call.rc = "CFGPP_ERROR_INVALID_SYNTAX"
             /\ parser.last_error = <<"Expected '}'">>
        /\ call.text \in {<<"[", " ", "1">>, <<"[", " ", "1", " ", ",", " ", "2">>} =>
             /\ call.rc = "CFGPP_ERROR_INVALID_SYNTAX"
             /\ parser.last_error = <<"Expected ']'">>

\* { a = 1 failed with the message of a missing key
C21_Diverges ==
    /\ Returned("parse_string")
    /\ call.text = <<"{", " ", "a", " ", "=", " ", "1">>
    /\ call.rc = "CFGPP_ERROR_INVALID_SYNTAX"
    /\ parser.last_error = <<"Expected identifier for object key">>

\* [ 1 failed and last_error was not assigned
C21_DivergesArray ==
    /\ Returned("parse_string")
    /\ call.text = <<"[", " ", "1">>
    /\ call.rc = "CFGPP_ERROR_INVALID_SYNTAX"
    /\ parser.last_error = <<>>

\* the Object value has every field of object-schema n with its type
Satisfies(value, n) ==
    FieldErrors(schema, schema.object_schemas[n], value[2], call.input.order.fields[n]) = <<>>

\* C22, as stated: when the Object value satisfies at least one
\* object-schema, cfgpp_validate_value reports no violations and returns
\* CFGPP_SUCCESS, whatever other schemas there are and in whatever order
\* they are examined.
C22_AsStated ==
    (/\ Returned("validate_value")
     /\ call.input.value[1] = "OBJECT"
     /\ call.input.buffer_size >= 1
     /\ \E n \in DOMAIN schema.object_schemas : Satisfies(call.input.value, n)) =>
        /\ call.rc = "CFGPP_SUCCESS"
        /\ call.result.errors = <<>>

\* {x: String} satisfies Cfg {x: string}; Q {x: double} was examined first
\* and its violation was reported
C22_Diverges ==
    /\ Returned("validate_value")
    /\ call.input.value = MkObject(MapSet(EmptyMap, <<"x">>, MkString(<<"s">>)))
    /\ call.input.buffer_size = 256
    /\ DOMAIN schema.object_schemas = {<<"Q">>, <<"C", "f", "g">>}
    /\ call.input.order.schemas = << <<"Q">>, <<"C", "f", "g">> >>
    /\ Satisfies(call.input.value, <<"C", "f", "g">>)
    /\ call.rc = "CFGPP_ERROR_INVALID_SYNTAX"
    /\ call.result.errors = <<WrongType(<<"x">>, <<"d", "o", "u", "b", "l", "e">>)>>

\* the same value and schemas with Cfg examined first: no violation
C22_Agrees ==
    /\ Returned("validate_value")
    /\ call.input.value = MkObject(MapSet(EmptyMap, <<"x">>, MkString(<<"s">>)))
    /\ call.input.buffer_size = 256
    /\ DOMAIN schema.object_schemas = {<<"Q">>, <<"C", "f", "g">>}
    /\ call.input.order.schemas = << <<"C", "f", "g">>, <<"Q">> >>
    /\ call.rc = "CFGPP_SUCCESS"

\* C23: cfgpp_validate_value on a value that is not an Object reports no
\* violations and, given a buffer of at least one byte, returns
\* CFGPP_SUCCESS, for every schema; cfgpp_variant_to_file_validated never
\* returns at its validation check.
C23_NonObject ==
    /\ (Returned("validate_value") /\ call.input.value[1] # "OBJECT") =>
         /\ call.result.errors = <<>>
         /\ call.result.error_length = 0
         /\ call.input.buffer_size >= 1 => call.rc = "CFGPP_SUCCESS"
    /\ Returned("variant_to_file_validated") =>
         /\ call.result.stage # "validate"
         /\ call.result.stage = "serialize" => call.result.value[1] # "OBJECT"

\* a String validated with a one-byte buffer against a schema that has an
\* object-schema with fields
C23_Witness ==
    /\ Returned("validate_value")
    /\ call.input.value = MkString(<<"s">>)
    /\ call.input.buffer_size = 1
    /\ \E n \in DOMAIN schema.object_schemas : DOMAIN schema.object_schemas[n] # {}
    /\ call.rc = "CFGPP_SUCCESS"

\* the variant I32(1000) passed validation against a schema with fields
C23_WitnessVariant ==
    /\ Returned("variant_to_file_validated")
    /\ call.input.rec = 1
    /\ \E n \in DOMAIN schema.object_schemas : DOMAIN schema.object_schemas[n] # {}
    /\ call.result.stage = "serialize"
    /\ call.result.value[1] = "INTEGER"

\* the signed and the unsigned integer type codes
SignedCodes == {LABVIEW_TYPE_I8, LABVIEW_TYPE_I16, LABVIEW_TYPE_I32, LABVIEW_TYPE_I64}
UnsignedCodes == {LABVIEW_TYPE_U8, LABVIEW_TYPE_U16, LABVIEW_TYPE_U32, LABVIEW_TYPE_U64}

\* the payload as a 64-bit two's complement integer, its upper bytes fill
Widened(pl, fill) == pl \o [i \in 1..(8 - Len(pl)) |-> fill]

\* the call decoded a whole record of an integer type with a payload of
\* the type's size
IntegerRecord ==
    /\ WholeRecord
    /\ Records[call.input.rec].tc \in SignedCodes \cup UnsignedCodes
    /\ Records[call.input.rec].ds = Len(Records[call.input.rec].pl)
    /\ Len(Records[call.input.rec].pl) > 0

\* C24, as stated: I8, I16, I32 and I64 decode to the Integer of the
\* sign-extended payload; U8, U16 and U32 to the Integer of the
\* zero-extended payload; U64 to the Integer with the payload's 64 bits
\* (v below 2^63, v - 2^64 from 2^63 on); in no case an error.
C24_AsStated ==
    IntegerRecord =>
        /\ call.rc = "CFGPP_SUCCESS"
        /\ call.result =
             MkInteger(Widened(Records[call.input.rec].pl,
                               IF /\ Records[call.input.rec].tc \in SignedCodes
                                  /\ Records[call.input.rec].pl[Len(Records[call.input.rec].pl)] >= 128
                               THEN 255 ELSE 0))

\* the U64 record of 2^63 + 1 decoded to a Double: its type code is the
\* code of DBL and the build's switch took that case
C24_Diverges ==
    /\ IntegerRecord
    /\ Records[call.input.rec] =
         [tc |-> LABVIEW_TYPE_U64, ds |-> 8, pl |-> <<1, 0, 0, 0, 0, 0, 0, 128>>]
    /\ build.case10 = "DBL"
    /\ call.rc = "CFGPP_SUCCESS"
    /\ call.result = MkDouble(<<"f64", <<1, 0, 0, 0, 0, 0, 0, 128>> >>)

\* where the switch took the U64 case the same record decoded to the
\* Integer 2^63 + 1 - 2^64
C24_Agrees ==
    /\ IntegerRecord
    /\ Records[call.input.rec].tc = LABVIEW_TYPE_U64
    /\ build.case10 = "U64"
    /\ call.result = MkInteger(<<1, 0, 0, 0, 0, 0, 0, 128>>)

\* the I8 record of byte 255 decoded to the Integer -1
C24_AgreesSigned ==
    /\ IntegerRecord
    /\ Records[call.input.rec].tc = LABVIEW_TYPE_I8
    /\ call.result = MkInteger(<<255, 255, 255, 255, 255, 255, 255, 255>>)

\* a validation returned
Validated ==
    \/ Returned("validate_value")
    \/ Returned("validate_type")
    \/ Returned("variant_to_file_validated")

\* C25: cfgpp_validate_value leaves the schema, object_schemas and
\* enum_definitions with their key sets, as it was when the call began,
\* and leaves the value tree as it was, whatever the declared types of the
\* fields are: an enum name, or a name that resolves to nothing.
C25_Frame ==
    Validated =>
        /\ schema = call.input.schema
        /\ DOMAIN schema.enum_definitions = DOMAIN call.input.schema.enum_definitions
        /\ DOMAIN schema.object_schemas = DOMAIN call.input.schema.object_schemas
        /\ Returned("validate_value") => call.result.value = call.input.value

\* the Object {c: Enum RED} validated against P {c: Color} where no enum
\* Color is declared: the type name resolves to nothing
C25_Witness ==
    /\ Returned("validate_value")
    /\ call.input.value = MkObject(MapSet(EmptyMap, <<"c">>, MkEnum(<<"R", "E", "D">>)))
    /\ <<"P">> \in DOMAIN call.input.schema.object_schemas
    /\ call.input.schema.object_schemas[<<"P">>][<<"c">>] = <<"C", "o", "l", "o", "r">>
    /\ <<"C", "o", "l", "o", "r">> \notin DOMAIN call.input.schema.enum_definitions
    /\ call.result.errors # <<>>

\* the same value and object-schema where enum Color is declared: the
\* entry enum_definitions["Color"] is read
C25_WitnessEnum ==
    /\ Returned("validate_value")
    /\ call.input.value = MkObject(MapSet(EmptyMap, <<"c">>, MkEnum(<<"R", "E", "D">>)))
    /\ <<"P">> \in DOMAIN call.input.schema.object_schemas
    /\ call.input.schema.object_schemas[<<"P">>][<<"c">>] = <<"C", "o", "l", "o", "r">>
    /\ <<"C", "o", "l", "o", "r">> \in DOMAIN call.input.schema.enum_definitions

\* the round went on and made progress: tokenize consumed a character,
\* parse_object and parse_array consumed a token, the cluster loop
\* advanced by a header at least
LoopProgress ==
    (pc = "running" /\ pc' = "running") =>
        /\ frame.op = "tokenize" => frame'.pos > frame.pos
        /\ frame.op \in {"parse_object", "parse_array"} => frame'.pos > frame.pos
        /\ frame.op = "cluster" => frame'.offset >= frame.offset + HeaderSize

\* C26: every round of the tokenize loop consumes a character or returns,
\* every round of the parse_object and parse_array loops consumes a token
\* or returns, every round of the cluster loop advances the offset by the
\* header size at least or returns; and every loop entered is left.
C26_Terminates ==
    /\ [][LoopProgress]_vars
    /\ (pc = "running") ~> (pc = "returned")

\* tokenize left its loop after more than three rounds, at the end of the
\* text
C26_Witness ==
    /\ pc = "returned"
    /\ frame.op = "tokenize"
    /\ frame.ok
    /\ Len(frame.result) > 3
    /\ frame.pos = Len(frame.text)

\* parse_object left its loop after two fields, the cluster loop after two
\* records
C26_WitnessObject ==
    /\ pc = "returned"
    /\ frame.op = "parse_object"
    /\ frame.v # Unset /\ frame.v # NullPtr
    /\ frame.v[1] = "OBJECT"
    /\ Cardinality(DOMAIN frame.v[2]) = 2

C26_WitnessCluster ==
    /\ pc = "returned"
    /\ frame.op = "cluster"
    /\ frame.i = 2
    /\ frame.offset = frame.data_size

\* the loops followed round by round give what the functions give
LoopsAgree ==
    pc = "returned" =>
        /\ frame.op = "tokenize" =>
             frame.result = tokenize(frame.text, build.dollar_eol).tokens
        /\ frame.op \in {"parse_object", "parse_array"} =>
             /\ frame.v = parse_value(frame.tokens, 0, <<>>).v
             /\ frame.pos = parse_value(frame.tokens, 0, <<>>).pos
        /\ frame.op = "cluster" =>
             /\ frame.rc = cfgpp_from_labview_cluster(frame.mem, frame.data_size,
                                                      frame.field_names,
                                                      frame.field_count,
                                                      build.case10).rc
             /\ frame.rc = "CFGPP_SUCCESS" =>
                  MkObject(frame.map) =
                    cfgpp_from_labview_cluster(frame.mem, frame.data_size,
                                               frame.field_names, frame.field_count,
                                               build.case10).value

\* C27: when cfgpp_parse_string has run the parser, the cursor is within
\* the token vector, 0 <= current_token_pos < len(tokens), and the last
\* token, END_OF_FILE, is at or behind the cursor: it was not consumed.
\* The cursor is only ever incremented, so the bound holds at every step
\* of the parse.
C27_CursorInRange ==
    (Returned("parse_string") /\ parser.tokens # <<>>) =>
        /\ 0 <= parser.current_token_pos
        /\ parser.current_token_pos < Len(parser.tokens)
        /\ parser.tokens[Len(parser.tokens)].type = "END_OF_FILE"
        /\ \A i \in 1..(Len(parser.tokens) - 1) :
             parser.tokens[i].type # "END_OF_FILE"

\* a parse failed with the cursor on END_OF_FILE after it consumed a field
C27_Witness ==
    /\ Returned("parse_string")
    /\ call.rc = "CFGPP_ERROR_INVALID_SYNTAX"
    /\ Len(parser.tokens) > 3
    /\ parser.current_token_pos = Len(parser.tokens) - 1

\* a parse succeeded having consumed every token but END_OF_FILE
C27_WitnessWhole ==
    /\ Returned("parse_string")
    /\ call.rc = "CFGPP_SUCCESS"
    /\ Len(parser.tokens) > 5
    /\ parser.current_token_pos = Len(parser.tokens) - 1

\* the first k tokens of the vector, END_OF_FILE behind them
Leading(tokens, k) == Append(SubSeq(tokens, 1, k), tokens[Len(tokens)])

\* the first k tokens form a complete value: parsed by themselves they give
\* a value and none of them is left
Complete(tokens, k) ==
    /\ IsValue(parse_value(Leading(tokens, k), 0, <<>>).v)
    /\ parse_value(Leading(tokens, k), 0, <<>>).pos = k

\* the first token is a name and the second a '{': the lookahead of the
\* IDENTIFIER case takes the two for the start of a named object
NamedObjectAhead(tokens) == IsObjectName(tokens, 0)

C28_WitnessBlock ==
    /\ Returned("parse_string")
    /\ call.text = ExampleBlocks
    /\ call.rc = "CFGPP_SUCCESS"
    /\ Tok(parser.tokens, parser.current_token_pos).type = "IDENTIFIER"

\* a { failed although the leading token a is a complete value, an Enum
C28_Diverges ==
    /\ Returned("parse_string")
    /\ call.text = <<"a", " ", "{">>
    /\ Complete(parser.tokens, 1)
    /\ call.rc = "CFGPP_ERROR_INVALID_SYNTAX"

\* C29, as stated: whenever cfgpp_parse_string returns
\* CFGPP_ERROR_INVALID_SYNTAX, last_error was assigned during that call:
\* after any sequence of parses it is not the empty string, and it is the
\* message the text gives on a fresh parser, not one left by an earlier
\* call.
C29_AsStated ==
    (call.op = "parse_string" /\ hist # <<>> /\ call.rc = "CFGPP_ERROR_INVALID_SYNTAX") =>
        /\ parser.last_error # <<>>
        /\ parser.last_error = Alone(call.text).parser.last_error

\* the text = failed after the text % had failed, and last_error is still
\* the message of the call before
C29_Diverges ==
    /\ call.op = "parse_string"
    /\ Len(hist) = 2
    /\ hist[1].text = <<"%">>
    /\ call.text = <<"=">>
    /\ call.rc = "CFGPP_ERROR_INVALID_SYNTAX"
    /\ parser.last_error = <<"Unexpected character: ", "%">>

\* the first call on the handle failed and last_error is the empty string
C29_DivergesFresh ==
    /\ call.op = "parse_string"
    /\ Len(hist) = 1
    /\ call.text = <<"[", " ", "1">>
    /\ call.rc = "CFGPP_ERROR_INVALID_SYNTAX"
    /\ parser.last_error = <<>>

\* a failed call after another failed call left its own message
C29_Agrees ==
    /\ call.op = "parse_string"
    /\ Len(hist) = 2
    /\ hist[1].text = <<"%">>
    /\ call.text = <<"{", " ", "a">>
    /\ call.rc = "CFGPP_ERROR_INVALID_SYNTAX"
    /\ parser.last_error = <<"Expected '=' after object key">>

\* C30, as stated: for a cluster buffer whose records all have supported
\* type codes and distinct field names, the schema text that
\* cfgpp_generate_schema_from_cluster produces, parsed into a fresh schema,
\* reports no violation for the Object that cfgpp_from_labview_cluster
\* decodes from the same buffer and names.
C30_AsStated ==
    (Returned("validate_value") /\ frame # NoFrame) =>
        /\ call.rc = "CFGPP_SUCCESS"
        /\ call.result.errors = <<>>

\* the field labelled "Range: max" is in the decoded Object, and the
\* generated schema reports a field Range missing
C30_Diverges ==
    /\ Returned("validate_value")
    /\ frame # NoFrame
    /\ frame.field_names = << <<"R", "a", "n", "g", "e", ":", " ", "m", "a", "x">> >>
    /\ <<"R", "a", "n", "g", "e", ":", " ", "m", "a", "x">> \in DOMAIN frame.value[2]
    /\ call.rc = "CFGPP_ERROR_INVALID_SYNTAX"
    /\ call.result.errors = <<MissingField(<<"R", "a", "n", "g", "e">>)>>

\* with the labels rate and Sample Rate the generated schema reports no
\* violation
C30_Agrees ==
    /\ Returned("validate_value")
    /\ frame # NoFrame
    /\ frame.field_names = << <<"r", "a", "t", "e">>, <<"S", "a", "m", "p", "l", "e", " ", "R", "a", "t", "e">> >>
    /\ Cardinality(DOMAIN frame.value[2]) = 2
    /\ call.rc = "CFGPP_SUCCESS"
    /\ call.result.errors = <<>>

=============================================================================
